---- MODULE Spec2Model ----
(***************************************************************************)
(* A model of the GPRN variational inference engine (class `inference` of  *)
(* src/gprn/npvi.py and src/oldFiles/experimental_stuff/mfi_old.py).       *)
(*                                                                         *)
(* The parts of the engine are modelled each with its own specification    *)
(* over the same variables (a part that a specification does not run stays *)
(* in its idle state):                                                     *)
(*   SpecChol    _cholNugget: the Cholesky factorization with nugget retry *)
(*   SpecCtor    __init__: the constructor and its two assertions          *)
(*   SpecLatent  _CB_matrix, _sample_CB, _fhat_and_w, u_to_fhatW           *)
(*   SpecELB     EvidenceLowerBound: the mean-field iteration loop         *)
(*   SpecEval    EvidenceLowerBound of either engine, call by call, with   *)
(*               the _cholNugget calls of every pass                       *)
(*   SpecWorkers the parameters drawn by two concurrent evaluations        *)
(*   SpecPars    the mean_pars property                                    *)
(*   SpecPredict Prediction and Prediction_new                             *)
(*   SpecMcmc    run_mcmc (utils.py): burn-in, reset, production           *)
(*   SpecMoments _updateSigmaMu_new and _expectedLogLike_new, one call     *)
(*   SpecFlow    the data flow of the mean-field sweeps, factor by factor  *)
(*   SpecMethods _kernelMatrix, _predictKernelMatrix, get_y, the mixture   *)
(*               _entropy, one call                                        *)
(*   SpecParsAgain the mean_pars setter called a second time               *)
(***************************************************************************)
EXTENDS Integers, Sequences, FiniteSets, TLC

VARIABLES
    \* ---- _cholNugget ----
    chol_pc,     \* position in _cholNugget
    matrix,      \* the matrix argument: the diagonal of a diagonal matrix
    maximum,     \* the maximum argument
    nugget,      \* the local nugget, as a numerator over NuggetDen(matrix)
    n,           \* the local n: number of tries so far
    L,           \* the factor returned: which matrix was factorized
    tried,       \* history: the shift of every factorization attempted, in order
    \* ---- __init__ : the arguments and the fields of the engine ----
    ctor_pc,     \* "new" before __init__ ran, then "built" or the error raised
    nodes,       \* the node kernels (a sequence of kernels)
    weight,      \* the weight kernel
    means,       \* the mean functions: 0 is None, another number a mean function
    jitters,     \* the jitters
    time,        \* the time vector
    args,        \* *args: data1, data1_error, data2, data2_error, ...
    q,           \* self.q
    p,           \* self.p
    qp,          \* self.qp
    N,           \* self.N
    y,           \* self.y, a sequence of rows
    yerr,        \* self.yerr, a sequence of rows
    \* ---- _CB_matrix, _sample_CB, _fhat_and_w, u_to_fhatW ----
    lat_pc,      \* position in the method running
    lat_op,      \* the method called
    callTime,    \* the time argument of the call
    CB,          \* the local CB, a sequence of rows
    pos,         \* the local pos
    cb_i,        \* the loop index i of the loop running
    written,     \* history: the pos of every block assignment, in order
    u,           \* the flat vector: the argument of _fhat_and_w, the sample
    f,           \* the node tensor returned
    w,           \* the weight tensor returned
    \* ---- EvidenceLowerBound (mean-field) ----
    elb_state,   \* NotStarted, Iterating, Converged, MaxIterationsReached
    iterations,  \* the iterations argument
    iterNumber,  \* the local iterNumber
    ELB,         \* the local list ELB
    sum_ELB,     \* the local sum_ELB: <<>> while unassigned, else <<value>>
    mu,          \* muF and muW: the number of the sweep that computed them
    criteria,    \* the local criteria, as [num, den]: num / den
    ret,         \* the values returned: (sum_ELB, muF, muW)
    \* ---- inside one outer iteration of EvidenceLowerBound ----
    sw_pc,       \* position in the mean-field sweep; "head" between sweeps
    call_k,      \* the number of the next _cholNugget call of the method running
    calls,       \* history: the matrices handed to _cholNugget in this iteration
    \* ---- EvidenceLowerBound (mixture, npvi.py) ----
    mix_pc,      \* position in the mixture EvidenceLowerBound
    mix_iterations, \* the iterations argument
    mix_iterNumber, \* the local iterNumber
    objective,   \* the first argument of minimize: "none", "float", "function"
    mix_mu,      \* muF and muW: the number of the minimize call that produced them
    mix_ret,     \* the value returned: <<>> while nothing is returned
    \* ---- concurrent mean-field evaluations in one process ----
    rng,         \* numpy's global generator: its seed, and the draws made since
    wpc,         \* per worker: the position in the drawing of the parameters
    wmu,         \* per worker: the local mu
    wvar,        \* per worker: the local var
    \* ---- the mean_pars property ----
    pars_pc,     \* "idle", then "set" or AssertionError, then "got"
    mobj,        \* self.means: the mean objects, one per output
    v,           \* the caller's list, handed to the setter
    mean_pars,   \* self._mean_pars
    got,         \* the value the getter returned
    \* ---- Prediction, Prediction_new ----
    pred_pc,     \* "idle" before the call, "done" after it
    pred_op,     \* the method called
    muF,         \* the fitted node means, one per node
    muW,         \* the fitted weight means, muW[i][j] for output i and node j
    gainF,       \* per node: K* K^-1 of the node kernel at the query time
    gainW,       \* K* K^-1 of the weight kernel at the query time
    ystar,       \* the prediction returned, one value per output
    \* ---- run_mcmc (utils.py) ----
    mc_pc,       \* position in run_mcmc
    sampler,     \* the name sampler: a string, or "object" once rebound
    mc_iterations, \* the iterations argument
    ndim,        \* the local ndim
    mc_p0,       \* the local p0: one position per walker
    chain,       \* sampler.chain: per walker, the positions stored
    lnprobability, \* sampler.lnprobability: per walker, the values stored
    phases,      \* history: the sampler steps taken so far, in order
    results,     \* the local results: <<>> while unassigned
    \* ---- the numerical methods, each one call ----
    fn_pc,       \* "idle" before the call, "done" or the error after it
    fn_op,       \* the method called
    fn_in,       \* its arguments, a record
    fn_out,      \* the value returned
    \* ---- the data flow of the mean-field sweeps ----
    fl_pc,       \* position in the loop of EvidenceLowerBound
    fl_iterations, \* the iterations argument
    fl_iterNumber, \* the local iterNumber
    fl_j,        \* the loop variable over the nodes (passes done)
    fl_i,        \* the loop variable over the outputs (passes done)
    fl_mom,      \* the locals muF, varF, muW, varW of EvidenceLowerBound
    fl_loc,      \* the locals sigma_f, mu_f, sigma_w, mu_w of the update
    fl_log,      \* history: what was computed, in order, and from what
    fl_ELB       \* the list ELB without its leading 0

cholVars == <<chol_pc, matrix, maximum, nugget, n, L, tried>>
ctorArgs == <<nodes, weight, means, jitters, time, args>>
ctorVars == <<ctor_pc, ctorArgs, q, p, qp, N, y, yerr>>

latVars == <<lat_pc, lat_op, callTime, CB, pos, cb_i, written, u, f, w>>

elbVars == <<elb_state, iterations, iterNumber, ELB, sum_ELB, mu, criteria, ret>>

sweepVars == <<sw_pc, call_k, calls>>

mixVars == <<mix_pc, mix_iterations, mix_iterNumber, objective, mix_mu, mix_ret>>

rngVars == <<rng, wpc, wmu, wvar>>

\* the variables of the parts that are no part of one ELBO evaluation
parsVars == <<pars_pc, mobj, v, mean_pars, got>>

predVars == <<pred_pc, pred_op, muF, muW, gainF, gainW, ystar>>

mcVars == <<mc_pc, sampler, mc_iterations, ndim, mc_p0, chain, lnprobability,
            phases, results>>

fnVars == <<fn_pc, fn_op, fn_in, fn_out>>

flowVars == <<fl_pc, fl_iterations, fl_iterNumber, fl_j, fl_i, fl_mom, fl_loc,
              fl_log, fl_ELB>>

lateVars == <<mcVars, fnVars, flowVars>>

moreVars == <<rngVars, parsVars, predVars, lateVars>>

extVars == <<sweepVars, mixVars, moreVars>>

\* the variables of the parts above
engineVars == <<cholVars, ctorVars, latVars, elbVars, sweepVars, mixVars>>

vars == <<cholVars, ctorVars, latVars, elbVars, extVars>>

(***************************************************************************)
(* Arithmetic helpers                                                      *)
(***************************************************************************)
Abs(x) == IF x < 0 THEN 0 - x ELSE x

RECURSIVE SumSeq(_)
SumSeq(s) == IF s = <<>> THEN 0 ELSE Head(s) + SumSeq(Tail(s))

\* np.concatenate / the row-major flattening of a list of arrays
RECURSIVE Concat(_)
Concat(rows) == IF rows = <<>> THEN <<>> ELSE Head(rows) \o Concat(Tail(rows))

(***************************************************************************)
(* __init__                                                                *)
(***************************************************************************)
\* bounds of the constructor's inputs
MaxQ == 2
MaxP == 2
MaxN == 2

\* the kinds of kernel a node or the weight may be; a kernel is a kind and
\* one hyperparameter, [kind |-> ..., par |-> ...]
KernelKinds == {"Stationary", "Linear", "Polynomial", "WhiteNoise"}

\* the k-th data argument (k counted from 0, as enumerate does): an array of
\* len entries, every entry of every argument a different number
DataArray(k, len) == [t \in 1..len |-> 10 * (k + 1) + t]
DataArgs(count, len) == [k \in 1..count |-> DataArray(k - 1, len)]

\* the loop `for i, j in enumerate(args)`: the arguments whose index i has
\* i % 2 = parity, in order, from index i on
CollectBad(a, i, parity) ==
    [k \in 1..((Len(a) + parity) \div 2) |-> a[2 * k - parity]]
RECURSIVE Collect(_, _, _)
Collect(a, i, parity) ==
    IF i >= Len(a) THEN <<>>
    ELSE (IF i % 2 = parity THEN <<a[i + 1]>> ELSE <<>>)
         \o Collect(a, i + 1, parity)

\* np.array(rows).reshape(r, c) is possible
ReshapeOK(rows, r, c) == Len(Concat(rows)) = r * c

\* np.array(rows).reshape(r, c), row-major
Reshape2(rows, r, c) ==
    [a \in 1..r |-> [b \in 1..c |-> Concat(rows)[(a - 1) * c + b]]]

\* `assert self.means.size == self.p`
MeansMatch(ms, pp) == Len(ms) = pp

\* `assert (i+1)/2 == self.p`, i being the index of the last argument
DataMatch(a, pp) == Len(a) = 2 * pp

NoEngine == [status |-> "new", q |-> 0, p |-> 0, qp |-> 0, N |-> 0,
             y |-> <<>>, yerr |-> <<>>]

\* what __init__ does with its arguments: the fields it sets, or the error
CtorOutcome(ns, ms, tm, a) ==
    LET pp    == Len(a) \div 2
        nn    == Len(tm)
        ys    == Collect(a, 0, 0)
        yerrs == Collect(a, 0, 1)
        fail(e) == [NoEngine EXCEPT !.status = e]
    IN  IF ~ReshapeOK(ys, pp, nn) THEN fail("ValueError")
        ELSE IF ~ReshapeOK(yerrs, pp, nn) THEN fail("ValueError")
        ELSE IF ~MeansMatch(ms, pp) THEN fail("AssertMeans")
        ELSE IF Len(a) = 0 THEN fail("NameError")
        ELSE IF ~DataMatch(a, pp) THEN fail("AssertData")
        ELSE [status |-> "built", q |-> Len(ns), p |-> pp, qp |-> Len(ns) * pp,
              N |-> nn, y |-> Reshape2(ys, pp, nn),
              yerr |-> Reshape2(yerrs, pp, nn)]

Construct ==
    /\ ctor_pc = "new"
    /\ LET out == CtorOutcome(nodes, means, time, args) IN
         /\ ctor_pc' = out.status
         /\ q' = out.q
         /\ p' = out.p
         /\ qp' = out.qp
         /\ N' = out.N
         /\ y' = out.y
         /\ yerr' = out.yerr
    /\ UNCHANGED <<extVars, ctorArgs, cholVars, latVars, elbVars>>

\* the argument lists a caller may hand to the constructor
TimeVector(len) == [t \in 1..len |-> t]
MeanLists == UNION {[1..k -> {0, 1}] : k \in 0..(MaxP + 1)}
JitterLists == {[k \in 1..len |-> 0] : len \in 0..(MaxP + 1)}
DefaultKernel == [kind |-> "Stationary", par |-> 1]
\* the kernels of q nodes, all of one kind, node j with hyperparameter j
NodesOfKind(kd, count) == [j \in 1..count |-> [kind |-> kd, par |-> j]]

PlainNodeLists == {[k \in 1..len |-> DefaultKernel] : len \in 1..MaxQ}

(***************************************************************************)
(* _cholNugget                                                             *)
(*                                                                         *)
(* A matrix is a diagonal matrix given by the sequence of its diagonal     *)
(* entries (integers).  For a diagonal matrix the pivots of the Cholesky   *)
(* factorization are the diagonal entries themselves, so scipy's cholesky  *)
(* succeeds exactly when every diagonal entry is positive and raises       *)
(* LinAlgError otherwise.                                                  *)
(*                                                                         *)
(* The nugget is the rational number nugget / NuggetDen(matrix): the code  *)
(* computes abs(mean(diag)) * 1e-5 = |sum(diag)| / (len * 100000).         *)
(***************************************************************************)
\* 1e-5, as its inverse
InvRelNugget == 100000

\* the factor by which a failed retry multiplies the nugget
NuggetGrowth == 10

\* largest value of the maximum argument that is explored
MaxMaximum == 3

\* the matrices handed to _cholNugget
Matrices ==
    { <<2, 2>>,          \* positive definite
      <<1, 3>>,          \* positive definite
      <<0, 2>>,          \* singular: any positive nugget repairs it
      <<-1, 40001>>,     \* slightly indefinite: repaired by the second nugget
      <<-1, 4001>>,      \* slightly indefinite: repaired by the third nugget
      <<-3, 401>>,       \* indefinite: repaired by the fifth nugget
      <<0, 0>>,          \* zero matrix: the nugget is zero too
      <<-1, 1>>,         \* zero trace: the nugget is zero
      <<-1, -1>> }       \* negative definite

NuggetDen(m) == Len(m) * InvRelNugget

\* np.abs(np.diag(matrix).mean()) * 1e-5, as a numerator over NuggetDen(matrix)
BaseNuggetBad(m) == 0
BaseNugget(m) == Abs(SumSeq(m))

\* cholesky(matrix + (shift / NuggetDen) * identity) succeeds: every pivot
\* d + shift/den is positive, i.e. the integer d exceeds floor(-shift/den)
CholeskyOK(m, shift) ==
    \A i \in 1..Len(m) : m[i] > ((0 - shift) \div NuggetDen(m))

NoFactor == [of |-> <<>>, shift |-> 0]

\* the matrix the k-th retry hands to cholesky, as the shift added to `matrix`
RetryShiftBad(shiftsTried, nug) == SumSeq(shiftsTried) + nug
RetryShift(shiftsTried, nug) == nug

CholCall ==
    /\ chol_pc = "idle"
    /\ chol_pc' = "direct"
    /\ nugget' = 0
    /\ UNCHANGED <<extVars, matrix, maximum, n, L, tried, ctorVars, latVars, elbVars>>

\* the first try block: nugget += ..., then cholesky(matrix)
CholDirect ==
    /\ chol_pc = "direct"
    /\ nugget' = nugget + BaseNugget(matrix)
    /\ tried' = Append(tried, 0)
    /\ IF CholeskyOK(matrix, 0)
          THEN /\ L' = [of |-> matrix, shift |-> 0]
               /\ chol_pc' = "returned"
               /\ n' = n
          ELSE /\ L' = L
               /\ chol_pc' = "retry"
               /\ n' = 0
    /\ UNCHANGED <<extVars, matrix, maximum, ctorVars, latVars, elbVars>>

\* the loop condition `while n < maximum`
WhileCondBad(tries, most) == tries <= most
WhileCond(tries, most) == tries < most

\* one pass of `while n < maximum`: try, except (nugget *= 10), finally (n += 1)
CholRetry ==
    /\ chol_pc = "retry"
    /\ WhileCond(n, maximum)
    /\ LET shift == RetryShift(Tail(tried), nugget) IN
         /\ tried' = Append(tried, shift)
         /\ IF CholeskyOK(matrix, shift)
               THEN /\ L' = [of |-> matrix, shift |-> shift]
                    /\ chol_pc' = "returned"
                    /\ nugget' = nugget
               ELSE /\ L' = L
                    /\ chol_pc' = "retry"
                    /\ nugget' = nugget * NuggetGrowth
    /\ n' = n + 1
    /\ UNCHANGED <<extVars, matrix, maximum, ctorVars, latVars, elbVars>>

\* the loop ends without a return: raise LinAlgError
CholRaise ==
    /\ chol_pc = "retry"
    /\ ~WhileCond(n, maximum)
    /\ chol_pc' = "raised"
    /\ UNCHANGED <<extVars, matrix, maximum, nugget, n, L, tried, ctorVars, latVars, elbVars>>

(***************************************************************************)
(* _kernelMatrix, _CB_matrix, _sample_CB, _fhat_and_w, u_to_fhatW          *)
(*                                                                         *)
(* Kernel values are integers in units of 1e-5, so that the regularization *)
(* 1e-5 that _kernelMatrix adds to the diagonal is the integer 1.          *)
(***************************************************************************)
\* one, in units of 1e-5
KernelUnit == 100000

\* the 1e-5 that _kernelMatrix adds to the diagonal, in units of 1e-5
Regularization == 1

\* number of different samples _sample_CB may draw
MaxSeed == 2

\* the value of a kernel of gprn.covFunction at the times t1 and t2: a
\* stationary kernel is a function of the lag t1 - t2 only, Linear and
\* Polynomial are functions of the two times
KernelEval(kernel, t1, t2) ==
    LET lag == t1 - t2 IN
    CASE kernel.kind = "Stationary" ->
            (kernel.par * KernelUnit) \div (1 + lag * lag)
      [] kernel.kind = "WhiteNoise" ->
            IF lag = 0 THEN kernel.par * KernelUnit ELSE 0
      [] kernel.kind = "Linear" ->
            kernel.par * KernelUnit * t1 * t2
      [] kernel.kind = "Polynomial" ->
            KernelUnit * (kernel.par * t1 * t2 + 1) * (kernel.par * t1 * t2 + 1)

\* _kernelMatrix(kernel, time), as in npvi.py (mfi_old.py adds 1e-6 where
\* npvi.py adds 1e-5)
kernelMatrix(kernel, tm) ==
    [r \in 1..Len(tm) |-> [c \in 1..Len(tm) |->
        IF kernel.kind \in {"Linear", "Polynomial"}
        THEN KernelEval(kernel, tm[r], tm[c])
        ELSE KernelEval(kernel, tm[r], tm[c])
             + (IF r = c THEN Regularization ELSE 0)]]

\* np.zeros((size, size))
Zeros(size) == [r \in 1..size |-> [c \in 1..size |-> 0]]

\* CB_size = time.size * self.q * (self.p + 1)
CBSize(tm) == Len(tm) * q * (p + 1)

\* CB[at:at+size, at:at+size] = block
SetBlock(mat, at, block) ==
    [r \in 1..Len(mat) |-> [c \in 1..Len(mat) |->
        IF /\ r > at /\ r <= at + Len(block)
           /\ c > at /\ c <= at + Len(block)
        THEN block[r - at][c - at]
        ELSE mat[r][c]]]

\* pos += time.size
NextPosBad(at, tm) == at + Len(tm) - 1
NextPos(at, tm) == at + Len(tm)

\* u[from:to], with Python's clamping of the slice to the array
Slice(vec, from, to) ==
    SubSeq(vec, from + 1, IF to > Len(vec) THEN Len(vec) ELSE to)

\* vec.reshape((d1, d2, d3)) is possible
Reshape3OK(vec, d1, d2, d3) == Len(vec) = d1 * d2 * d3

\* vec.reshape((d1, d2, d3)): row-major, the last index varying fastest
Reshape3Bad(vec, d1, d2, d3) ==
    [a \in 1..d1 |-> [b \in 1..d2 |-> [c \in 1..d3 |->
        vec[((c - 1) * d2 + (b - 1)) * d1 + a]]]]
Reshape3(vec, d1, d2, d3) ==
    [a \in 1..d1 |-> [b \in 1..d2 |-> [c \in 1..d3 |->
        vec[((a - 1) * d2 + (b - 1)) * d3 + c]]]]

\* the split of _fhat_and_w (size = self.N) and of u_to_fhatW (size =
\* time.size): node part u[:q*size], weight part u[q*size:]
SplitOK(vec, size) ==
    /\ Reshape3OK(Slice(vec, 0, q * size), 1, q, size)
    /\ Reshape3OK(Slice(vec, q * size, Len(vec)), p, q, size)
SplitF(vec, size) == Reshape3(Slice(vec, 0, q * size), 1, q, size)
SplitW(vec, size) == Reshape3(Slice(vec, q * size, Len(vec)), p, q, size)

\* a vector of len entries, all different: what a draw of the sampler or a
\* caller's vector looks like
SampleVec(seed, len) == [k \in 1..len |-> 100 * seed + k]

\* a call of _CB_matrix, or of u_to_fhatW (which calls _sample_CB, which
\* calls _CB_matrix): CB_size, CB = zeros, pos = 0
LatCall ==
    /\ lat_pc = "idle"
    /\ \E op \in {"CB_matrix", "u_to_fhatW"}, tm \in {time, <<1>>} :
         /\ lat_op' = op
         /\ callTime' = tm
         /\ CB' = Zeros(CBSize(tm))
    /\ pos' = 0
    /\ cb_i' = 0
    /\ lat_pc' = "nodes"
    /\ UNCHANGED <<extVars, written, u, f, w, ctorVars, cholVars, elbVars>>

\* one pass of `for i in range(self.q)`
CBNode ==
    /\ lat_pc = "nodes"
    /\ cb_i < q
    /\ CB' = SetBlock(CB, pos, kernelMatrix(nodes[cb_i + 1], callTime))
    /\ written' = Append(written, pos)
    /\ pos' = NextPos(pos, callTime)
    /\ cb_i' = cb_i + 1
    /\ UNCHANGED <<extVars, lat_pc, lat_op, callTime, u, f, w, ctorVars, cholVars, elbVars>>

\* the node loop is over: weight_CovMatrix is computed, the weight loop starts
CBNodesDone ==
    /\ lat_pc = "nodes"
    /\ ~(cb_i < q)
    /\ lat_pc' = "weights"
    /\ cb_i' = 0
    /\ UNCHANGED <<extVars, lat_op, callTime, CB, pos, written, u, f, w, ctorVars, cholVars, elbVars>>

\* one pass of `for i in range(self.qp)`
CBWeight ==
    /\ lat_pc = "weights"
    /\ cb_i < qp
    /\ CB' = SetBlock(CB, pos, kernelMatrix(weight, callTime))
    /\ written' = Append(written, pos)
    /\ pos' = NextPos(pos, callTime)
    /\ cb_i' = cb_i + 1
    /\ UNCHANGED <<extVars, lat_pc, lat_op, callTime, u, f, w, ctorVars, cholVars, elbVars>>

\* `return CB`
CBReturn ==
    /\ lat_pc = "weights"
    /\ ~(cb_i < qp)
    /\ lat_pc' = IF lat_op = "CB_matrix" THEN "done" ELSE "sample"
    /\ UNCHANGED <<extVars, lat_op, callTime, CB, pos, cb_i, written, u, f, w,
                   ctorVars, cholVars, elbVars>>

\* the rest of u_to_fhatW: the draw u of _sample_CB, of the length of the
\* mean vector time.size*q*(p+1), then the split with time.size
SampleAndSplit ==
    /\ lat_pc = "sample"
    /\ \E seed \in 1..MaxSeed :
         LET draw == SampleVec(seed, CBSize(callTime)) IN
         /\ u' = draw
         /\ IF SplitOK(draw, Len(callTime))
               THEN /\ f' = SplitF(draw, Len(callTime))
                    /\ w' = SplitW(draw, Len(callTime))
                    /\ lat_pc' = "done"
               ELSE /\ UNCHANGED <<f, w>>
                    /\ lat_pc' = "ValueError"
    /\ UNCHANGED <<extVars, lat_op, callTime, CB, pos, cb_i, written, ctorVars, cholVars, elbVars>>

\* _fhat_and_w(u), for a vector of the engine's length N*q*(p+1) or of one
\* entry more
FhatAndW ==
    /\ lat_pc = "idle"
    /\ lat_op' = "fhat_and_w"
    /\ \E seed \in 1..MaxSeed, extra \in {0, 1} :
         LET vec == SampleVec(seed, CBSize(time) + extra) IN
         /\ u' = vec
         /\ IF SplitOK(vec, N)
               THEN /\ f' = SplitF(vec, N)
                    /\ w' = SplitW(vec, N)
                    /\ lat_pc' = "done"
               ELSE /\ UNCHANGED <<f, w>>
                    /\ lat_pc' = "ValueError"
    /\ UNCHANGED <<extVars, callTime, CB, pos, cb_i, written, ctorVars, cholVars, elbVars>>

(***************************************************************************)
(* EvidenceLowerBound, the mean-field loop                                 *)
(*                                                                         *)
(* A sweep is one pass of the while loop.  What a sweep computes from the  *)
(* data (ExpLogLike + ExpLogPrior + Entropy) is an input of the model: any *)
(* of the values ElboVals.  ELBO values are exact integers, in units of    *)
(* 1e-10 / Tolerance; the rounding of floating point is not modelled.      *)
(***************************************************************************)
\* the threshold 1e-10 of the stopping criteria, in ELBO units
Tolerance == 2

\* the window of the stopping criteria: ELB[-10:]
Window == 10

\* the largest iterations argument explored
MaxIter == 11

\* an ELBO value far from the others
Far == 40

\* the values a sweep's ELBO may take
ElboVals == {0, 1, Far}

\* lst[-count:]
LastOf(lst, count) ==
    IF Len(lst) <= count THEN lst ELSE SubSeq(lst, Len(lst) - count + 1, Len(lst))

\* the list whose mean the stopping criteria takes: ELB[-10:]
CriteriaWindow(lst) == LastOf(lst, Window)

\* criteria = np.abs(np.mean(ELB[-10:]) - sum_ELB), as a fraction
Criteria(lst, value) ==
    LET win == CriteriaWindow(lst) IN
    [num |-> Abs(SumSeq(win) - Len(win) * value), den |-> Len(win)]

\* `criteria < 1e-10 and criteria != 0`
StopNow(c) == c.num < Tolerance * c.den /\ c.num # 0

\* the loop condition `while iterNumber < iterations`
LoopCondBad(done, budget) == done <= budget
LoopCond(done, budget) == done < budget

\* the first element of the tuple returned
ReturnedELBBad(value, lst) ==
    CHOOSE best \in {lst[k] : k \in 2..Len(lst)} :
        \A k \in 2..Len(lst) : lst[k] <= best
ReturnedELB(value, lst) == value

NoReturn == [elbo |-> 0, mu |-> 0]
NoCriteria == [num |-> 0, den |-> 1]

\* the call: the initial variational parameters are drawn, iterNumber = 0,
\* ELB = [0]
ELBCall ==
    /\ elb_state = "NotStarted"
    /\ elb_state' = "Iterating"
    /\ mu' = 0
    /\ iterNumber' = 0
    /\ ELB' = <<0>>
    /\ UNCHANGED <<extVars, iterations, sum_ELB, criteria, ret, cholVars, ctorVars, latVars>>

\* one pass of the while loop: the update of the posteriors, the three terms
\* of the bound, ELB.append, the stopping criteria, the return or the
\* increment of iterNumber
Sweep ==
    /\ elb_state = "Iterating"
    /\ LoopCond(iterNumber, iterations)
    /\ \E value \in ElboVals :
         LET c == Criteria(Append(ELB, value), value) IN
         /\ mu' = mu + 1
         /\ sum_ELB' = <<value>>
         /\ ELB' = Append(ELB, value)
         /\ criteria' = c
         /\ IF StopNow(c)
               THEN /\ ret' = [elbo |-> ReturnedELB(value, Append(ELB, value)),
                               mu |-> mu + 1]
                    /\ elb_state' = "Converged"
                    /\ iterNumber' = iterNumber
               ELSE /\ ret' = ret
                    /\ elb_state' = elb_state
                    /\ iterNumber' = iterNumber + 1
    /\ UNCHANGED <<extVars, iterations, cholVars, ctorVars, latVars>>

\* the loop is over: `return sum_ELB, muF, muW`; sum_ELB is unassigned when
\* no sweep ran
ELBLoopExit ==
    /\ elb_state = "Iterating"
    /\ ~LoopCond(iterNumber, iterations)
    /\ IF sum_ELB = <<>>
          THEN /\ elb_state' = "UnboundLocalError"
               /\ ret' = ret
          ELSE /\ elb_state' = "MaxIterationsReached"
               /\ ret' = [elbo |-> ReturnedELB(sum_ELB[1], ELB), mu |-> mu]
    /\ UNCHANGED <<extVars, iterations, iterNumber, ELB, sum_ELB, mu, criteria,
                   cholVars, ctorVars, latVars>>

(***************************************************************************)
(* One outer iteration of EvidenceLowerBound, call by call                 *)
(*                                                                         *)
(* The mean-field sweep is _updateSigmaMu_new, _entropy, _expectedLogPrior *)
(* and _expectedLogLike_new, in this order.  _entropy and                  *)
(* _expectedLogPrior call _cholNugget, which runs as the actions CholCall, *)
(* CholDirect, CholRetry and CholRaise above; the matrix of a call is an   *)
(* input of the model, any of SweepMatrices.  Indices count from 1.        *)
(***************************************************************************)
\* the default of the maximum argument of _cholNugget
DefaultMaximum == 10

\* the largest iterations argument explored call by call
MaxSweeps == 2

\* the matrices an outer iteration hands to _cholNugget
SweepMatrices ==
    { <<2, 2>>,          \* positive definite
      <<0, 2>>,          \* singular: repaired by the first nugget
      <<-1, 1>> }        \* zero trace: no nugget repairs it

\* which matrix a call factorizes; an index the matrix does not have is 0
MatrixName(kind, j, i) == [m |-> kind, j |-> j, i |-> i]

\* the _cholNugget calls of _entropy, in order: for every node j sigma_f[j],
\* then sigma_w[j, i] for every output i
EntropyCallsBad(qq, pp) ==
    [k \in 1..(qq * (pp + 1)) |->
        MatrixName("sigma_f", ((k - 1) \div (pp + 1)) + 1, 0)]
EntropyCalls(qq, pp) ==
    [k \in 1..(qq * (pp + 1)) |->
        LET j == ((k - 1) \div (pp + 1)) + 1
            i == (k - 1) % (pp + 1)
        IN  IF i = 0 THEN MatrixName("sigma_f", j, 0)
                     ELSE MatrixName("sigma_w", j, i)]

\* the _cholNugget calls of _expectedLogPrior, in order: Kw[0], then Kf[j]
\* for every node j
LogPriorCalls(qq) ==
    [k \in 1..(qq + 1) |->
        IF k = 1 THEN MatrixName("Kw", 1, 0) ELSE MatrixName("Kf", k - 1, 0)]

\* EvidenceLowerBound has no try statement: it catches no exception
CaughtBad(exception) == exception = "LinAlgError"
Caught(exception) == FALSE

\* the call self._cholNugget(m): maximum takes its default
Invoke(m) ==
    /\ chol_pc' = "idle" /\ matrix' = m /\ maximum' = DefaultMaximum
    /\ nugget' = 0 /\ n' = 0 /\ L' = NoFactor /\ tried' = <<>>

\* the locals of the last _cholNugget call are gone
Forget ==
    /\ chol_pc' = "off" /\ matrix' = <<>> /\ maximum' = 0
    /\ nugget' = 0 /\ n' = 0 /\ L' = NoFactor /\ tried' = <<>>

\* no _cholNugget call is running, and none has raised
NoCall == chol_pc \in {"off", "returned"}

\* the head of the while loop, _updateSigmaMu_new and the reshapes of the
\* new means and variances
SweepUpdate ==
    /\ elb_state = "Iterating"
    /\ sw_pc = "head"
    /\ LoopCond(iterNumber, iterations)
    /\ mu' = mu + 1
    /\ sw_pc' = "entropy"
    /\ call_k' = 1
    /\ calls' = <<>>
    /\ UNCHANGED <<elb_state, iterations, iterNumber, ELB, sum_ELB, criteria,
                   ret, cholVars, ctorVars, latVars, moreVars, mixVars>>

\* _entropy: the next self._cholNugget(sigma_f[j]) or
\* self._cholNugget(sigma_w[j, i, :, :])
EntropyFactor ==
    /\ elb_state = "Iterating"
    /\ sw_pc = "entropy"
    /\ NoCall
    /\ call_k <= Len(EntropyCalls(q, p))
    /\ \E m \in SweepMatrices : Invoke(m)
    /\ calls' = Append(calls, EntropyCalls(q, p)[call_k])
    /\ call_k' = call_k + 1
    /\ UNCHANGED <<sw_pc, elbVars, ctorVars, latVars, moreVars, mixVars>>

\* _entropy returns; _expectedLogPrior is called
EntropyReturn ==
    /\ elb_state = "Iterating"
    /\ sw_pc = "entropy"
    /\ NoCall
    /\ call_k > Len(EntropyCalls(q, p))
    /\ Forget
    /\ sw_pc' = "logprior"
    /\ call_k' = 1
    /\ UNCHANGED <<calls, elbVars, ctorVars, latVars, moreVars, mixVars>>

\* _expectedLogPrior: self._cholNugget(Kw[0]), then the next
\* self._cholNugget(Kf[j])
LogPriorFactor ==
    /\ elb_state = "Iterating"
    /\ sw_pc = "logprior"
    /\ NoCall
    /\ call_k <= Len(LogPriorCalls(q))
    /\ \E m \in SweepMatrices : Invoke(m)
    /\ calls' = Append(calls, LogPriorCalls(q)[call_k])
    /\ call_k' = call_k + 1
    /\ UNCHANGED <<sw_pc, elbVars, ctorVars, latVars, moreVars, mixVars>>

\* _expectedLogPrior returns; _expectedLogLike_new is called
LogPriorReturn ==
    /\ elb_state = "Iterating"
    /\ sw_pc = "logprior"
    /\ NoCall
    /\ call_k > Len(LogPriorCalls(q))
    /\ Forget
    /\ sw_pc' = "loglike"
    /\ call_k' = 0
    /\ UNCHANGED <<calls, elbVars, ctorVars, latVars, moreVars, mixVars>>

\* the value of a mean function at a time: a mean function is named by the
\* constant it evaluates to
MeanEval(meanfun, t) == meanfun

\* _mean(means, self.time): zeros, overwritten by meanfun(self.time) on the
\* slice of every output whose mean function is not None
MeanVector(ms, tm) ==
    [k \in 1..(Len(ms) * Len(tm)) |->
        LET meanfun == ms[((k - 1) \div Len(tm)) + 1]
        IN  IF meanfun = 0 THEN 0
               ELSE MeanEval(meanfun, tm[((k - 1) % Len(tm)) + 1])]

\* np.array(np.array_split(np.concatenate(self.y) - mean, self.p)).T: the
\* residuals, one row per time
NewY(yy, mean, pp, nn) ==
    [t \in 1..nn |-> [i \in 1..pp |-> yy[i][t] - mean[(i - 1) * nn + t]]]

\* `new_y = ...` binds the local name new_y: the array that self.y names is
\* the one it named before
FieldAfterLocalBad(field, local) == local
FieldAfterLocal(field, local) == field

\* _expectedLogLike_new, sum_ELB, ELB.append, the stopping criteria, the
\* return or the increment of iterNumber
SweepClose ==
    /\ elb_state = "Iterating"
    /\ sw_pc = "loglike"
    /\ y' = FieldAfterLocal(y, NewY(y, MeanVector(means, time), p, N))
    /\ \E value \in ElboVals :
         LET c == Criteria(Append(ELB, value), value) IN
         /\ sum_ELB' = <<value>>
         /\ ELB' = Append(ELB, value)
         /\ criteria' = c
         /\ IF StopNow(c)
               THEN /\ ret' = [elbo |-> ReturnedELB(value, Append(ELB, value)),
                               mu |-> mu]
                    /\ elb_state' = "Converged"
                    /\ iterNumber' = iterNumber
               ELSE /\ ret' = ret
                    /\ elb_state' = elb_state
                    /\ iterNumber' = iterNumber + 1
    /\ sw_pc' = "head"
    /\ UNCHANGED <<iterations, mu, call_k, calls, cholVars, ctor_pc, ctorArgs,
                   q, p, qp, N, yerr, latVars, moreVars, mixVars>>

\* _cholNugget raised LinAlgError inside _entropy or _expectedLogPrior: no
\* frame between the raise and the caller of EvidenceLowerBound catches it
SweepRaise ==
    /\ elb_state = "Iterating"
    /\ sw_pc \in {"entropy", "logprior"}
    /\ chol_pc = "raised"
    /\ IF Caught("LinAlgError")
          THEN /\ chol_pc' = "returned"
               /\ elb_state' = elb_state
          ELSE /\ chol_pc' = chol_pc
               /\ elb_state' = "LinAlgError"
    /\ UNCHANGED <<matrix, maximum, nugget, n, L, tried, iterations,
                   iterNumber, ELB, sum_ELB, mu, criteria, ret, sweepVars,
                   ctorVars, latVars, moreVars, mixVars>>

(***************************************************************************)
(* EvidenceLowerBound of the mixture engine (npvi.py)                      *)
(*                                                                         *)
(* One pass of the while loop is _expectedLogJoint + _entropy, the call of *)
(* scipy's minimize, then _expectedLogJoint and _entropy again.  minimize  *)
(* evaluates its first argument at the starting point, and the code hands  *)
(* it the number ELBO: a number is not callable, the evaluation raises     *)
(* TypeError, and the statements after the call are never reached.         *)
(***************************************************************************)
\* the _cholNugget calls of _expectedLogJoint, in order: Kf[j] for every
\* node j, then the weight kernel matrix
JointCalls(qq) ==
    [k \in 1..(qq + 1) |->
        IF k <= qq THEN MatrixName("Kf", k, 0) ELSE MatrixName("Kw", 1, 0)]

\* fun(x0), the first thing minimize does, works for a function only
Callable(fun) == fun = "function"

\* the call: the initial means and variances are drawn, iterNumber = 0
MixCall ==
    /\ mix_pc = "NotStarted"
    /\ mix_pc' = "head"
    /\ mix_iterNumber' = 0
    /\ mix_mu' = 0
    /\ UNCHANGED <<mix_iterations, objective, mix_ret, sweepVars, cholVars,
                   ctorVars, latVars, moreVars, elbVars>>

\* `while iterNumber < iterations` holds: _expectedLogJoint is called
JointBegin ==
    /\ mix_pc = "head"
    /\ LoopCond(mix_iterNumber, mix_iterations)
    /\ mix_pc' = "joint"
    /\ call_k' = 1
    /\ calls' = <<>>
    /\ UNCHANGED <<sw_pc, mix_iterations, mix_iterNumber, objective, mix_mu,
                   mix_ret, cholVars, ctorVars, latVars, moreVars, elbVars>>

\* _expectedLogJoint: the next self._cholNugget(i) of logKf, then of logKw
JointFactor ==
    /\ mix_pc = "joint"
    /\ NoCall
    /\ call_k <= Len(JointCalls(q))
    /\ \E m \in SweepMatrices : Invoke(m)
    /\ calls' = Append(calls, JointCalls(q)[call_k])
    /\ call_k' = call_k + 1
    /\ UNCHANGED <<sw_pc, mixVars, elbVars, ctorVars, latVars, moreVars>>

\* _expectedLogJoint returns, _entropy is evaluated, ELBO is their sum
JointReturn ==
    /\ mix_pc = "joint"
    /\ NoCall
    /\ call_k > Len(JointCalls(q))
    /\ Forget
    /\ mix_pc' = "minimize"
    /\ objective' = "float"
    /\ call_k' = 0
    /\ UNCHANGED <<sw_pc, calls, mix_iterations, mix_iterNumber, mix_mu,
                   mix_ret, elbVars, ctorVars, latVars, moreVars>>

\* res = minimize(ELBO, mu, method='COBYLA', ...)
Minimize ==
    /\ mix_pc = "minimize"
    /\ mix_pc' = IF Callable(objective) THEN "minimized" ELSE "TypeError"
    /\ UNCHANGED <<mix_iterations, mix_iterNumber, objective, mix_mu, mix_ret,
                   sweepVars, cholVars, elbVars, ctorVars, latVars, moreVars>>

\* _cholNugget raised LinAlgError inside _expectedLogJoint
JointRaise ==
    /\ mix_pc = "joint"
    /\ chol_pc = "raised"
    /\ mix_pc' = "LinAlgError"
    /\ UNCHANGED <<mix_iterations, mix_iterNumber, objective, mix_mu, mix_ret,
                   sweepVars, cholVars, elbVars, ctorVars, latVars, moreVars>>

\* `while iterNumber < iterations` fails: `return ExpLogJoint`, a local that
\* is assigned after the call of minimize only
MixLoopExit ==
    /\ mix_pc = "head"
    /\ ~LoopCond(mix_iterNumber, mix_iterations)
    /\ mix_pc' = "UnboundLocalError"
    /\ UNCHANGED <<mix_iterations, mix_iterNumber, objective, mix_mu, mix_ret,
                   sweepVars, cholVars, elbVars, ctorVars, latVars, moreVars>>

(***************************************************************************)
(* The initial variational parameters of concurrent mean-field evaluations *)
(*                                                                         *)
(* np.random.seed, np.random.randn and np.random.rand act on the one       *)
(* generator of the process.  A generator is its seed and the number of    *)
(* values drawn since it was seeded; value k of the stream of seed s is    *)
(* the pair <<s, k>>, and seed 0 stands for the seed the process started   *)
(* with.  Each call of the generator is atomic; the evaluations of one     *)
(* process interleave between their calls.                                 *)
(***************************************************************************)
\* the evaluations running in the process
Workers == {1, 2}

\* np.random.seed(100) and np.random.seed(200)
SeedMu == 100
SeedVar == 200

\* the generator after np.random.seed(s)
Seeded(s) == [seed |-> s, pos |-> 0]

\* the values np.random.rand(len, 1) or np.random.randn(len, 1) returns
Draw(gen, len) == [k \in 1..len |-> <<gen.seed, gen.pos + k>>]

\* the generator after that call
Drawn(gen, len) == [seed |-> gen.seed, pos |-> gen.pos + len]

\* D = self.time.size * self.q * (self.p + 1)
LatentSize == N * q * (p + 1)

\* mu = np.random.randn(D, 1)
DrawFirstMu ==
    \E wk \in Workers :
      /\ wpc[wk] = "randn"
      /\ wmu' = [wmu EXCEPT ![wk] = Draw(rng, LatentSize)]
      /\ rng' = Drawn(rng, LatentSize)
      /\ wpc' = [wpc EXCEPT ![wk] = "rand"]
      /\ UNCHANGED <<wvar, engineVars, lateVars, parsVars, predVars>>

\* var = np.random.rand(D, 1)
DrawFirstVar ==
    \E wk \in Workers :
      /\ wpc[wk] = "rand"
      /\ wvar' = [wvar EXCEPT ![wk] = Draw(rng, LatentSize)]
      /\ rng' = Drawn(rng, LatentSize)
      /\ wpc' = [wpc EXCEPT ![wk] = "seed_mu"]
      /\ UNCHANGED <<wmu, engineVars, lateVars, parsVars, predVars>>

\* np.random.seed(100)
SeedForMu ==
    \E wk \in Workers :
      /\ wpc[wk] = "seed_mu"
      /\ rng' = Seeded(SeedMu)
      /\ wpc' = [wpc EXCEPT ![wk] = "mu"]
      /\ UNCHANGED <<wmu, wvar, engineVars, lateVars, parsVars, predVars>>

\* mu = np.random.rand(D, 1)
DrawMu ==
    \E wk \in Workers :
      /\ wpc[wk] = "mu"
      /\ wmu' = [wmu EXCEPT ![wk] = Draw(rng, LatentSize)]
      /\ rng' = Drawn(rng, LatentSize)
      /\ wpc' = [wpc EXCEPT ![wk] = "seed_var"]
      /\ UNCHANGED <<wvar, engineVars, lateVars, parsVars, predVars>>

\* np.random.seed(200)
SeedForVar ==
    \E wk \in Workers :
      /\ wpc[wk] = "seed_var"
      /\ rng' = Seeded(SeedVar)
      /\ wpc' = [wpc EXCEPT ![wk] = "var"]
      /\ UNCHANGED <<wmu, wvar, engineVars, lateVars, parsVars, predVars>>

\* var = np.random.rand(D, 1); the loop that follows computes the ELBO from
\* mu, var and the worker's own objects
DrawVar ==
    \E wk \in Workers :
      /\ wpc[wk] = "var"
      /\ wvar' = [wvar EXCEPT ![wk] = Draw(rng, LatentSize)]
      /\ rng' = Drawn(rng, LatentSize)
      /\ wpc' = [wpc EXCEPT ![wk] = "drawn"]
      /\ UNCHANGED <<wmu, engineVars, lateVars, parsVars, predVars>>

(***************************************************************************)
(* The mean_pars property                                                  *)
(*                                                                         *)
(* A mean object is a record: none is TRUE for None, size is _parsize and  *)
(* pars is the parameter array of a mean function.                         *)
(***************************************************************************)
\* the longest vector handed to the setter
MaxPars == 4

\* the largest _parsize of a mean function
MaxParSize == 2

\* the values of the entries of the vector
ParValues == {1, 2, 3}

NoneMean == [none |-> TRUE, size |-> 0, pars |-> <<>>]

\* a mean function of sz parameters, all zero
MeanFunction(sz) == [none |-> FALSE, size |-> sz, pars |-> [k \in 1..sz |-> 0]]

\* the getter of mean_pars_size: the sum of _parsize over the means that are
\* not None
RECURSIVE MeanParsSize(_)
MeanParsSize(objs) ==
    IF objs = <<>> THEN 0
    ELSE (IF Head(objs).none THEN 0 ELSE Head(objs).size)
         + MeanParsSize(Tail(objs))

\* pars.pop(0): the item removed, and the list that is left
PopFrontBad(lst) ==
    [item |-> lst[Len(lst)], rest |-> SubSeq(lst, 1, Len(lst) - 1)]
PopFront(lst) == [item |-> Head(lst), rest |-> Tail(lst)]

\* for j in range(m._parsize): m.pars[j] = pars.pop(0)
RECURSIVE FillPars(_, _, _, _)
FillPars(pv, j, size, lst) ==
    IF j > size THEN [pars |-> pv, rest |-> lst]
    ELSE LET popped == PopFront(lst)
         IN  FillPars([pv EXCEPT ![j] = popped.item], j + 1, size, popped.rest)

\* the loop over self.means: None is skipped, a mean function is filled
RECURSIVE AssignPars(_, _)
AssignPars(objs, lst) ==
    IF objs = <<>> THEN <<>>
    ELSE LET m == Head(objs) IN
         IF m.none
            THEN <<m>> \o AssignPars(Tail(objs), lst)
            ELSE LET filled == FillPars(m.pars, 1, m.size, lst)
                 IN  <<[m EXCEPT !.pars = filled.pars]>>
                         \o AssignPars(Tail(objs), filled.rest)

\* the setter of mean_pars, called with the caller's list v: pars = list(pars)
\* is a new list, so the pops leave both v and the copy in _mean_pars alone
SetMeanPars ==
    /\ pars_pc = "idle"
    /\ IF Len(v) = MeanParsSize(mobj)
          THEN /\ mean_pars' = v
               /\ mobj' = AssignPars(mobj, v)
               /\ pars_pc' = "set"
          ELSE /\ pars_pc' = "AssertionError"
               /\ UNCHANGED <<mean_pars, mobj>>
    /\ UNCHANGED <<v, got, engineVars, lateVars, rngVars, predVars>>

\* the getter of mean_pars: return self._mean_pars
GetMeanPars ==
    /\ pars_pc = "set"
    /\ got' = mean_pars
    /\ pars_pc' = "got"
    /\ UNCHANGED <<v, mean_pars, mobj, engineVars, lateVars, rngVars, predVars>>

(***************************************************************************)
(* Prediction and Prediction_new                                           *)
(*                                                                         *)
(* One query time.  The conditional mean of a Gaussian process at the      *)
(* query time is a linear function of its fitted mean, K* K^-1 mu; with    *)
(* one training time it is gain * mu, and the gain of every node kernel    *)
(* and of the weight kernel is an input of the model.                      *)
(***************************************************************************)
\* the fitted means and the gains explored
FittedNodeMeans == {1, 2}
FittedWeightMeans == {0, 1}
Gains == {1, 2}

\* Kfstar[j] @ (invKf[j] @ muF[:, j, :].T)
NodeStar(j) == gainF[j] * muF[j]

\* Kwstar[0] @ (invKw[0] @ muW[i][j].T)
WeightStar(i, j) == gainW * muW[i][j]

\* self._mean(means, tstar), split by output
MeanStar(i) == IF means[i] = 0 THEN 0 ELSE MeanEval(means[i], 1)

\* Prediction: Efstar sums the nodes, Ewstar sums the weights of every
\* output and node, ystar = Ewstar @ Efstar, and every output gets
\* ystar + means[i]
Prediction ==
    /\ pred_pc = "idle"
    /\ pred_op = "Prediction"
    /\ LET Efstar == SumSeq([j \in 1..q |-> NodeStar(j)])
           Ewstar == SumSeq([j \in 1..q |->
                                SumSeq([i \in 1..p |-> WeightStar(i, j)])])
       IN  ystar' = [i \in 1..p |-> Ewstar * Efstar + MeanStar(i)]
    /\ pred_pc' = "done"
    /\ UNCHANGED <<pred_op, muF, muW, gainF, gainW, engineVars, lateVars, rngVars,
                   parsVars>>

\* Prediction_new: ystar[:, i] = Wstar @ fstar, then ystar[i] + means[i]
Prediction_new ==
    /\ pred_pc = "idle"
    /\ pred_op = "Prediction_new"
    /\ ystar' = [i \in 1..p |->
                    SumSeq([j \in 1..q |-> WeightStar(i, j) * NodeStar(j)])
                    + MeanStar(i)]
    /\ pred_pc' = "done"
    /\ UNCHANGED <<pred_op, muF, muW, gainF, gainW, engineVars, lateVars, rngVars,
                   parsVars>>

(***************************************************************************)
(* run_mcmc (utils.py): the ensemble sampler is run for a burn-in, reset,  *)
(* and run again; the nested sampler is the other branch.  One action per  *)
(* statement; one ensemble step moves every walker once.                   *)
(***************************************************************************)
MaxRuns == 2
MaxDim == 2

Samplers == {"emcee", "dynesty", "other"}

nwalkers == 2 * ndim

\* prior_func(): the starting position of walker wk, one coordinate per
\* dimension
PriorDraw(wk, nd) == [d \in 1..nd |-> 10 * wk]

\* elbo_func(position): the log-probability of a position
LnProb(position) == 0 - SumSeq(position)

\* the sets of walkers whose proposal one ensemble step accepts
Accepts(nw) == {{}, {1}, 1..nw}

\* where walker wk stands: at p0 when the call starts, else at its last
\* stored position
Cur(wk) == IF chain[wk] = <<>> THEN mc_p0[wk] ELSE chain[wk][Len(chain[wk])]

Moved(wk, acc) ==
    IF wk \in acc THEN [Cur(wk) EXCEPT ![1] = @ + 1] ELSE Cur(wk)

StepsOf(phase) == Len(SelectSeq(phases, LAMBDA e : e.phase = phase))

ResetChainBad(ch) == ch

\* sampler.reset(): the stored chain is emptied
ResetChain(ch) == [wk \in DOMAIN ch |-> <<>>]

RECURSIVE Rows(_, _, _)
\* chain.reshape((-1, ndim)) stacked with lnprobability.reshape(-1, 1):
\* walker by walker, each walker's stored steps in order
Rows(ch, lp, wk) ==
    IF wk > Len(ch) THEN <<>>
    ELSE [s \in 1..Len(ch[wk]) |-> ch[wk][s] \o <<lp[wk][s]>>]
         \o Rows(ch, lp, wk + 1)

McStep(phase) ==
    \E acc \in Accepts(nwalkers) :
        /\ chain' = [wk \in 1..nwalkers |-> Append(chain[wk], Moved(wk, acc))]
        /\ lnprobability' = [wk \in 1..nwalkers |->
               Append(lnprobability[wk], LnProb(Moved(wk, acc)))]
        /\ phases' = Append(phases,
               [phase |-> phase,
                from |-> [wk \in 1..nwalkers |-> Cur(wk)],
                to |-> [wk \in 1..nwalkers |-> Moved(wk, acc)]])

McEmcee ==
    /\ mc_pc = "call"
    /\ sampler = "emcee"
    /\ \E nd \in 1..MaxDim :
        /\ ndim' = nd
        /\ mc_p0' = [wk \in 1..(2 * nd) |-> PriorDraw(wk, nd)]
        /\ chain' = [wk \in 1..(2 * nd) |-> <<>>]
        /\ lnprobability' = [wk \in 1..(2 * nd) |-> <<>>]
    /\ sampler' = "object"
    /\ mc_pc' = "burn"
    /\ UNCHANGED <<mc_iterations, phases, results, fnVars, flowVars,
                   engineVars, rngVars, parsVars, predVars>>

McNotEmcee ==
    /\ mc_pc = "call"
    /\ sampler # "emcee"
    /\ mc_pc' = "test"
    /\ UNCHANGED <<sampler, mc_iterations, ndim, mc_p0, chain, lnprobability,
                   phases, results, fnVars, flowVars, engineVars, rngVars,
                   parsVars, predVars>>

BurnStep ==
    /\ mc_pc = "burn"
    /\ StepsOf("burn") < mc_iterations
    /\ McStep("burn")
    /\ UNCHANGED <<mc_pc, sampler, mc_iterations, ndim, mc_p0, results,
                   fnVars, flowVars, engineVars, rngVars, parsVars, predVars>>

BurnDone ==
    /\ mc_pc = "burn"
    /\ StepsOf("burn") = mc_iterations
    /\ mc_p0' = [wk \in 1..nwalkers |-> Cur(wk)]
    /\ mc_pc' = "reset"
    /\ UNCHANGED <<sampler, mc_iterations, ndim, chain, lnprobability, phases,
                   results, fnVars, flowVars, engineVars, rngVars, parsVars,
                   predVars>>

Reset ==
    /\ mc_pc = "reset"
    /\ chain' = ResetChain(chain)
    /\ lnprobability' = ResetChain(lnprobability)
    /\ phases' = Append(phases, [phase |-> "reset", from |-> <<>>, to |-> <<>>])
    /\ mc_pc' = "run"
    /\ UNCHANGED <<sampler, mc_iterations, ndim, mc_p0, results, fnVars,
                   flowVars, engineVars, rngVars, parsVars, predVars>>

RunStep ==
    /\ mc_pc = "run"
    /\ StepsOf("run") < mc_iterations
    /\ McStep("run")
    /\ UNCHANGED <<mc_pc, sampler, mc_iterations, ndim, mc_p0, results,
                   fnVars, flowVars, engineVars, rngVars, parsVars, predVars>>

McCollect ==
    /\ mc_pc = "run"
    /\ StepsOf("run") = mc_iterations
    /\ results' = Rows(chain, lnprobability, 1)
    /\ mc_pc' = "test"
    /\ UNCHANGED <<sampler, mc_iterations, ndim, mc_p0, chain, lnprobability,
                   phases, fnVars, flowVars, engineVars, rngVars, parsVars,
                   predVars>>

Dynesty ==
    /\ mc_pc = "test"
    /\ sampler = "dynesty"
    /\ \E nd \in 1..MaxDim : ndim' = nd
    /\ phases' = Append(phases,
           [phase |-> "dynesty", from |-> <<>>, to |-> <<>>])
    /\ results' = <<"dsampler.results">>
    /\ mc_pc' = "return"
    /\ UNCHANGED <<sampler, mc_iterations, mc_p0, chain, lnprobability,
                   fnVars, flowVars, engineVars, rngVars, parsVars, predVars>>

McNotDynesty ==
    /\ mc_pc = "test"
    /\ sampler # "dynesty"
    /\ mc_pc' = "return"
    /\ UNCHANGED <<sampler, mc_iterations, ndim, mc_p0, chain, lnprobability,
                   phases, results, fnVars, flowVars, engineVars, rngVars,
                   parsVars, predVars>>

McReturn ==
    /\ mc_pc = "return"
    /\ mc_pc' = IF results = <<>> THEN "UnboundLocalError" ELSE "returned"
    /\ UNCHANGED <<sampler, mc_iterations, ndim, mc_p0, chain, lnprobability,
                   phases, results, fnVars, flowVars, engineVars, rngVars,
                   parsVars, predVars>>

(***************************************************************************)
(* The numerical methods of the engines, one call each: the method and its *)
(* arguments are fixed when the call starts (fn_op, fn_in), the action of  *)
(* the method computes what it returns (fn_out).  Arrays are sequences of  *)
(* integers; the covariance algebra (inverses, determinants) is left out,  *)
(* the indexing, the residuals and the scalars are computed as the code    *)
(* computes them.                                                          *)
(***************************************************************************)
\* the values a variational mean may take
MomentValues == {0, 1}

\* a vector of len entries whose Euclidean norm is 5 * scale
NoiseVector(len, scale) ==
    [k \in 1..len |-> IF len = 1 THEN 5 * scale
                      ELSE IF k = 1 THEN 3 * scale
                      ELSE IF k = 2 THEN 4 * scale ELSE 0]

\* the data arguments y_1, yerr_1, y_2, yerr_2, ...: every observation a
\* different number, every row of uncertainties of norm 5 * scale
NoisyArgs(pp, nn, scale) ==
    [k \in 1..(2 * pp) |->
        IF k % 2 = 1 THEN DataArray(k - 1, nn) ELSE NoiseVector(nn, scale)]

\* an engine as the constructor builds it from qq nodes of one kind, the
\* mean functions ms, jitters of norm 5 * jit and nn times
MethodEngine(kd, qq, ms, nn, jit, scale) ==
    /\ nodes = NodesOfKind(kd, qq)
    /\ weight = [kind |-> kd, par |-> 1]
    /\ means = ms
    /\ jitters = NoiseVector(Len(ms), jit)
    /\ time = TimeVector(nn)
    /\ args = NoisyArgs(Len(ms), nn, scale)
    /\ LET out == CtorOutcome(nodes, means, time, args) IN
         /\ ctor_pc = out.status
         /\ q = out.q /\ p = out.p /\ qp = out.qp /\ N = out.N
         /\ y = out.y /\ yerr = out.yerr

\* the arrays of shape (rows, cols), and two arrays of shape (planes, rows,
\* cols): all ones, and ones and twos alternating
Arrays2(rows, cols, values) == [1..rows -> [1..cols -> values]]
Arrays3(planes, rows, cols) ==
    {[i \in 1..planes |-> [j \in 1..rows |-> [t \in 1..cols |->
          IF coded THEN 1 + ((i + j + t) % 2) ELSE 1]]] : coded \in BOOLEAN}

\* np.sum(x**2) and its square root, for the vectors whose norm is an integer
SumSq(x) == SumSeq([k \in 1..Len(x) |-> x[k] * x[k]])
Root(x) == CHOOSE r \in 0..x : r * r = x

\* the value error_term has after lines 539-541: the norm of the jitters over
\* p plus, for every output, the norm of its uncertainties over N; a rational
CombinedNoise(js, ye, pp, nn) ==
    [num |-> nn * Root(SumSq(js))
             + pp * SumSeq([i \in 1..pp |-> Root(SumSq(ye[i]))]),
     den |-> pp * nn]

\* the value error_term has when the formulas use it: after the combined
\* value is computed, `error_term = 1` rebinds the name
ErrorTerm(js, ye, pp, nn) ==
    LET combined == CombinedNoise(js, ye, pp, nn)
        rebound  == [num |-> 1, den |-> 1]
    IN  rebound

\* muF.T.reshape(1, q, N) for muF of shape (1, q, N): the entry (k, n) of
\* muF is at the flat position n * q + k of the transpose
TReshape(m, qq, nn) ==
    [a \in 1..qq |-> [b \in 1..nn |->
        LET flat == (a - 1) * nn + (b - 1)
        IN  m[(flat % qq) + 1][(flat \div qq) + 1]]]

RECURSIVE Reshaped(_, _, _, _)
\* muF after `muF = muF.T.reshape(1, self.q, self.N)` has run count times
Reshaped(m, qq, nn, count) ==
    IF count = 0 THEN m ELSE Reshaped(TReshape(m, qq, nn), qq, nn, count - 1)

\* how often that statement has run when muF[:, k, :] is read for the node j
\* and the output i: q - 1 times for every pair (j, i) before, and once for
\* every k' <= k other than j
Reshapes(j, i, k) ==
    ((j - 1) * p + (i - 1)) * (q - 1) + Cardinality({kk \in 1..k : kk # j})

\* Sum_nj of the node loop, for the node j and the output i
NodeSum(j, i, mF, mW) ==
    [t \in 1..N |-> SumSeq([k \in 1..q |->
        IF k = j THEN 0
        ELSE mW[i][k][t] * Reshaped(mF, q, N, Reshapes(j, i, k))[k][t]])]

\* _updateSigmaMu_new: the sums subtracted from the observations in the node
\* loop and the error term of the covariance and mean formulas
UpdateSigmaMu ==
    /\ fn_pc = "call"
    /\ fn_op = "_updateSigmaMu_new"
    /\ fn_out' = [Sum_nj |-> [j \in 1..q |-> [i \in 1..p |->
                                 NodeSum(j, i, fn_in.muF, fn_in.muW)]],
                  error_term |-> ErrorTerm(jitters, yerr, p, N)]
    /\ fn_pc' = "done"
    /\ UNCHANGED <<fn_op, fn_in, mcVars, flowVars, engineVars, rngVars,
                   parsVars, predVars>>

\* Wblk: for n, for p, the q weight means mu_w[p, :, n]
Wblk(mw) ==
    [m \in 1..(N * p * q) |->
        mw[(((m - 1) % (p * q)) \div q) + 1][((m - 1) % q) + 1]
          [((m - 1) \div (p * q)) + 1]]

\* Fblk: for n, for q, for p, the node mean mu_f[:, q, n]
Fblk(mf) ==
    [m \in 1..(N * q * p) |->
        mf[(((m - 1) % (q * p)) \div p) + 1][((m - 1) \div (q * p)) + 1]]

\* yy: new_y (N rows of p residuals) flattened and appended q times
Tiled(newy) ==
    [m \in 1..(q * N * p) |->
        newy[(((m - 1) % (N * p)) \div p) + 1][((m - 1) % p) + 1]]

\* np.sum(Ydiff), Ydiff = (new_y - Ymean) * (new_y - Ymean), Ymean = Wblk * Fblk
SumYdiff(newy, mf, mw) ==
    SumSeq([m \in 1..(N * p * q) |->
        (Tiled(newy)[m] - Wblk(mw)[m] * Fblk(mf)[m])
        * (Tiled(newy)[m] - Wblk(mw)[m] * Fblk(mf)[m])])

\* _expectedLogLike_new returns -0.5 * np.sum(Ydiff) / error_term
ExpectedLogLike ==
    /\ fn_pc = "call"
    /\ fn_op = "_expectedLogLike_new"
    /\ fn_out' = [sumYdiff |-> SumYdiff(NewY(y, MeanVector(means, time), p, N),
                                        fn_in.muF, fn_in.muW),
                  error_term |-> ErrorTerm(jitters, yerr, p, N)]
    /\ fn_pc' = "done"
    /\ UNCHANGED <<fn_op, fn_in, mcVars, flowVars, engineVars, rngVars,
                   parsVars, predVars>>

(***************************************************************************)
(* The data flow of the mean-field sweeps: the loop of EvidenceLowerBound  *)
(* (mfi_old.py) with _updateSigmaMu_new, followed factor by factor.  A     *)
(* moment is named by what it is, the output i and node j it belongs to    *)
(* (i = 0 for a node) and the sweep that computed it (0: the initial       *)
(* draw); the history records, for everything computed, the moments it was *)
(* computed from.  Numerical failures are left out.                        *)
(***************************************************************************)
Moment(what, i, j, sweep) == [what |-> what, i |-> i, j |-> j, sweep |-> sweep]

\* np.diag(sigma): the variances of a covariance
DiagOf(sigma) == [sigma EXCEPT !.what = "diag " \o sigma.what]

\* muF, varF, muW, varW as _fhat_and_w splits the initial draws
InitialMoments ==
    [muF  |-> [j \in 1..q |-> Moment("mu_f", 0, j, 0)],
     varF |-> [j \in 1..q |-> Moment("diag sigma_f", 0, j, 0)],
     muW  |-> [i \in 1..p |-> [j \in 1..q |-> Moment("mu_w", i, j, 0)]],
     varW |-> [i \in 1..p |-> [j \in 1..q |-> Moment("diag sigma_w", i, j, 0)]]]

NoLocals == [sigma_f |-> <<>>, mu_f |-> <<>>, sigma_w |-> <<>>, mu_w |-> <<>>]

\* the sweep being performed, counted from 1
ThisSweep == fl_iterNumber + 1

Computed(what, i, j, reads) ==
    [what |-> what, i |-> i, j |-> j, sweep |-> ThisSweep, reads |-> reads]

flowRest == <<mcVars, fnVars, engineVars, rngVars, parsVars, predVars>>

\* `while iterNumber < iterations`: the call of _updateSigmaMu_new
FlowSweep ==
    /\ fl_pc = "while"
    /\ fl_iterNumber < fl_iterations
    /\ fl_loc' = NoLocals
    /\ fl_j' = 0
    /\ fl_pc' = "nodes"
    /\ UNCHANGED <<fl_iterations, fl_iterNumber, fl_i, fl_mom, fl_log, fl_ELB,
                   flowRest>>

\* the loop is over: return sum_ELB, muF, muW
FlowReturn ==
    /\ fl_pc = "while"
    /\ ~(fl_iterNumber < fl_iterations)
    /\ fl_pc' = "returned"
    /\ UNCHANGED <<fl_iterations, fl_iterNumber, fl_j, fl_i, fl_mom, fl_loc,
                   fl_log, fl_ELB, flowRest>>

\* one pass of the node loop: CovF from the arguments muW and varW, then
\* CovF @ tmp, tmp from the arguments muW and muF
FlowNode ==
    /\ fl_pc = "nodes"
    /\ fl_j < q
    /\ LET j == fl_j + 1
           Diag_fj == {fl_mom.muW[i][j] : i \in 1..p}
                      \cup {fl_mom.varW[i][j] : i \in 1..p}
           tmp == {fl_mom.muW[i][k] : i \in 1..p, k \in 1..q}
                  \cup (IF q = 1 THEN {} ELSE {fl_mom.muF[k] : k \in 1..q})
           CovF == Moment("sigma_f", 0, j, ThisSweep)
       IN  /\ fl_loc' = [fl_loc EXCEPT
                  !.sigma_f = Append(@, CovF),
                  !.mu_f = Append(@, Moment("mu_f", 0, j, ThisSweep))]
           /\ fl_log' = fl_log \o
                  <<Computed("sigma_f", 0, j, Diag_fj),
                    Computed("mu_f", 0, j, {CovF} \cup tmp)>>
    /\ fl_j' = fl_j + 1
    /\ UNCHANGED <<fl_pc, fl_iterations, fl_iterNumber, fl_i, fl_mom, fl_ELB,
                   flowRest>>

\* the node loop is over: the weight loop starts
FlowNodesDone ==
    /\ fl_pc = "nodes"
    /\ ~(fl_j < q)
    /\ fl_pc' = "weights"
    /\ fl_i' = 0
    /\ fl_j' = 0
    /\ UNCHANGED <<fl_iterations, fl_iterNumber, fl_mom, fl_loc, fl_log, fl_ELB,
                   flowRest>>

\* one pass of `for i in range(self.p): for j in range(self.q)`: CovWij from
\* the local mu_f[j] and sigma_f[j], then CovWij @ tmp, tmp from the local
\* mu_f and the argument muW
FlowWeight ==
    /\ fl_pc = "weights"
    /\ fl_i < p
    /\ LET i == fl_i + 1
           j == fl_j + 1
           Diag_ij == {fl_loc.mu_f[j], DiagOf(fl_loc.sigma_f[j])}
           tmp == {fl_loc.mu_f[k] : k \in 1..q}
                  \cup {fl_mom.muW[i][k] : k \in 1..q \ {j}}
           CovWij == Moment("sigma_w", i, j, ThisSweep)
       IN  /\ fl_loc' = [fl_loc EXCEPT
                  !.sigma_w = Append(@, CovWij),
                  !.mu_w = Append(@, Moment("mu_w", i, j, ThisSweep))]
           /\ fl_log' = fl_log \o
                  <<Computed("sigma_w", i, j, Diag_ij),
                    Computed("mu_w", i, j, {CovWij} \cup tmp)>>
    /\ IF fl_j + 1 < q
          THEN fl_j' = fl_j + 1 /\ fl_i' = fl_i
          ELSE fl_j' = 0 /\ fl_i' = fl_i + 1
    /\ UNCHANGED <<fl_pc, fl_iterations, fl_iterNumber, fl_mom, fl_ELB,
                   flowRest>>

\* np.array(sigma_w).reshape(self.q, self.p, self.N, self.N)
SigmaW4(flat) == [a \in 1..q |-> [b \in 1..p |-> flat[(a - 1) * p + b]]]

VarWListBad(sigmaW) ==
    [m \in 1..(q * p) |->
        DiagOf(sigmaW[((m - 1) % q) + 1][((m - 1) \div q) + 1])]

\* the list varW: `for j in range(self.q): for i in range(self.p):
\* varW.append(np.diag(sigmaW[j, i, :]))`
VarWList(sigmaW) ==
    [m \in 1..(q * p) |->
        DiagOf(sigmaW[((m - 1) \div p) + 1][((m - 1) % p) + 1])]

\* np.array(list).reshape(self.p, self.q, self.N)
PerWeight(flat) == [i \in 1..p |-> [j \in 1..q |-> flat[(i - 1) * q + j]]]

\* the weight loop is over: _updateSigmaMu_new returns, and the locals muF,
\* varF, muW, varW of EvidenceLowerBound are rebuilt from what it returned
FlowRebuild ==
    /\ fl_pc = "weights"
    /\ ~(fl_i < p)
    /\ fl_loc' = [fl_loc EXCEPT !.sigma_w = SigmaW4(@)]
    /\ fl_mom' = [muF  |-> fl_loc.mu_f,
                  varF |-> [j \in 1..q |-> DiagOf(fl_loc.sigma_f[j])],
                  muW  |-> PerWeight(fl_loc.mu_w),
                  varW |-> PerWeight(VarWList(SigmaW4(fl_loc.sigma_w)))]
    /\ fl_pc' = "entropy"
    /\ UNCHANGED <<fl_iterations, fl_iterNumber, fl_j, fl_i, fl_log, fl_ELB,
                   flowRest>>

\* Entropy = self._entropy(sigmaF, sigmaW)
FlowEntropy ==
    /\ fl_pc = "entropy"
    /\ fl_log' = Append(fl_log, Computed("Entropy", 0, 0,
           {fl_loc.sigma_f[j] : j \in 1..q}
           \cup {fl_loc.sigma_w[j][i] : j \in 1..q, i \in 1..p}))
    /\ fl_pc' = "logprior"
    /\ UNCHANGED <<fl_iterations, fl_iterNumber, fl_j, fl_i, fl_mom, fl_loc,
                   fl_ELB, flowRest>>

\* ExpLogPrior = self._expectedLogPrior(nodes, weight, sigmaF, muF, sigmaW, muW)
FlowLogPrior ==
    /\ fl_pc = "logprior"
    /\ fl_log' = Append(fl_log, Computed("ExpLogPrior", 0, 0,
           {fl_loc.sigma_f[j] : j \in 1..q}
           \cup {fl_loc.sigma_w[j][i] : j \in 1..q, i \in 1..p}
           \cup {fl_mom.muF[j] : j \in 1..q}
           \cup {fl_mom.muW[i][j] : i \in 1..p, j \in 1..q}))
    /\ fl_pc' = "loglike"
    /\ UNCHANGED <<fl_iterations, fl_iterNumber, fl_j, fl_i, fl_mom, fl_loc,
                   fl_ELB, flowRest>>

\* ExpLogLike = self._expectedLogLike_new(..., sigmaF, muF, sigmaW, muW)
FlowLogLike ==
    /\ fl_pc = "loglike"
    /\ fl_log' = Append(fl_log, Computed("ExpLogLike", 0, 0,
           {fl_mom.muF[j] : j \in 1..q}
           \cup {fl_mom.muW[i][j] : i \in 1..p, j \in 1..q}))
    /\ fl_pc' = "append"
    /\ UNCHANGED <<fl_iterations, fl_iterNumber, fl_j, fl_i, fl_mom, fl_loc,
                   fl_ELB, flowRest>>

\* sum_ELB = (ExpLogLike + ExpLogPrior + Entropy); ELB.append(sum_ELB)
FlowAppend ==
    /\ fl_pc = "append"
    /\ LET terms == {Moment(term, 0, 0, ThisSweep) :
                          term \in {"ExpLogLike", "ExpLogPrior", "Entropy"}}
       IN  /\ fl_ELB' = Append(fl_ELB, terms)
           /\ fl_log' = Append(fl_log, Computed("ELB.append", 0, 0, terms))
    /\ fl_pc' = "criteria"
    /\ UNCHANGED <<fl_iterations, fl_iterNumber, fl_j, fl_i, fl_mom, fl_loc,
                   flowRest>>

\* the stopping criteria: return, or iterNumber += 1
FlowCriteria ==
    /\ fl_pc = "criteria"
    /\ fl_log' = Append(fl_log, Computed("criteria", 0, 0,
           {fl_ELB[Len(fl_ELB)]}))
    /\ \E converged \in BOOLEAN :
         IF converged
            THEN fl_pc' = "returned" /\ fl_iterNumber' = fl_iterNumber
            ELSE fl_pc' = "while" /\ fl_iterNumber' = fl_iterNumber + 1
    /\ UNCHANGED <<fl_iterations, fl_j, fl_i, fl_mom, fl_loc, fl_ELB, flowRest>>

(***************************************************************************)
(* _kernelMatrix, _predictKernelMatrix, get_y and the _entropy of the      *)
(* mixture engine, one call each.                                          *)
(***************************************************************************)
\* largest hyperparameter of the kernel handed to a method
MaxKernelPar == 3

\* largest number of mixture components
MaxK == 3

\* the standard deviations a mixture component may have
SigmaValues == {1, 2}

\* the call kernel(r) with the lag alone: the kernels evaluated from the two
\* raw time vectors cannot be evaluated from it
LagCallable(kernel) == kernel.kind \notin {"Linear", "Polynomial"}

\* _kernelMatrix(kernel, time)
KernelMatrix ==
    /\ fn_pc = "call"
    /\ fn_op = "_kernelMatrix"
    /\ fn_out' = kernelMatrix(fn_in.kernel, time)
    /\ fn_pc' = "done"
    /\ UNCHANGED <<fn_op, fn_in, mcVars, flowVars, engineVars, rngVars,
                   parsVars, predVars>>

\* kernel(None, time, self.time[None, :]) and, with r = time - self.time,
\* kernel(r): one row for every query time
CrossMatrix(kernel, tstar, tm) ==
    [r \in 1..Len(tstar) |-> [c \in 1..Len(tm) |->
        KernelEval(kernel, tstar[r], tm[c])]]

\* _predictKernelMatrix(kernel, time): an `if` for Linear and Polynomial, then
\* an `if` for WhiteNoise whose `else` evaluates kernel(r) for every other
\* kernel, Linear and Polynomial included
PredictKernelMatrix ==
    /\ fn_pc = "call"
    /\ fn_op = "_predictKernelMatrix"
    /\ LET kernel == fn_in.kernel
           first  == IF kernel.kind \in {"Linear", "Polynomial"}
                        THEN CrossMatrix(kernel, fn_in.tstar, time)
                        ELSE <<>>
       IN  IF kernel.kind = "WhiteNoise"
              THEN /\ fn_out' = [c \in 1..Len(time) |-> 0]
                   /\ fn_pc' = "done"
              ELSE IF LagCallable(kernel)
                      THEN /\ fn_out' = CrossMatrix(kernel, fn_in.tstar, time)
                           /\ fn_pc' = "done"
                      ELSE /\ fn_out' = first
                           /\ fn_pc' = "TypeError"
    /\ UNCHANGED <<fn_op, fn_in, mcVars, flowVars, engineVars, rngVars,
                   parsVars, predVars>>

\* np.hstack of an array of 2 rows with arrays of k rows is possible
StackOK(k) == k = 2

\* sig_nj = np.diag((sigma[0]**2 + sigma[0]**2) * np.identity(k)): the
\* variance used for each of the k components
SigNj(sigma, k) == [ki \in 1..k |-> sigma[1] * sigma[1] + sigma[1] * sigma[1]]

\* the mixture _entropy(muF, muW, sigma, k): the stacking of the means under
\* `Sig_nj = np.array([[], []])`, the variance of every component, the
\* weights beta = np.ones((k, 1)) / k of the final average (as 1 / den)
MixEntropy ==
    /\ fn_pc = "call"
    /\ fn_op = "_entropy"
    /\ IF StackOK(fn_in.k)
          THEN /\ fn_out' = [sig_nj |-> SigNj(fn_in.sigma, fn_in.k),
                             columns |-> q * N + p * q * N,
                             beta |-> [ki \in 1..fn_in.k |-> fn_in.k]]
               /\ fn_pc' = "done"
          ELSE /\ fn_out' = <<>>
               /\ fn_pc' = "ValueError"
    /\ UNCHANGED <<fn_op, fn_in, mcVars, flowVars, engineVars, rngVars,
                   parsVars, predVars>>

\* `if means`: None and the empty list are false
Truthy(ms) == ms.given /\ Len(ms.list) > 0

\* np.einsum('ij...,jk...->ik...', w, n).reshape(self.p, time.size) for w of
\* shape (p, q, T) and n of shape (1, q, T): the label j has the sizes q and
\* 1, the label k the size q, so that the reshape to (p, T) needs q = 1
EinsumOK == q = 1
Einsum(nn, ww, tm) ==
    [i \in 1..p |-> [t \in 1..Len(tm) |-> ww[i][1][t] * nn[1][t]]]

\* get_y(n, w, time, means): `y = (y + self._mean(means, time)) if means
\* else time`, the sum of an array of shape (p, T) and a vector of p * T
\* entries following the broadcasting of numpy; what is returned is the
\* array and the name it was bound to
GetY ==
    /\ fn_pc = "call"
    /\ fn_op = "get_y"
    /\ LET tm == fn_in.time
           yy == Einsum(fn_in.n, fn_in.w, tm)
           m  == MeanVector(fn_in.means.list, tm)
       IN  IF ~EinsumOK
              THEN fn_out' = <<>> /\ fn_pc' = "ValueError"
           ELSE IF ~Truthy(fn_in.means)
              THEN fn_out' = [name |-> "time", array |-> tm] /\ fn_pc' = "done"
           ELSE IF p = 1
              THEN /\ fn_out' = [name |-> "y", array |->
                          [i \in 1..p |-> [t \in 1..Len(tm) |->
                              yy[i][t] + m[t]]]]
                   /\ fn_pc' = "done"
           ELSE IF Len(tm) = 1
              THEN /\ fn_out' = [name |-> "y", array |->
                          [i \in 1..p |-> [c \in 1..p |-> yy[i][1] + m[c]]]]
                   /\ fn_pc' = "done"
           ELSE fn_out' = <<>> /\ fn_pc' = "ValueError"
    /\ UNCHANGED <<fn_op, fn_in, mcVars, flowVars, engineVars, rngVars,
                   parsVars, predVars>>

(***************************************************************************)
(* The setter of mean_pars called a second time, on an engine whose        *)
(* mean_pars was set before.                                               *)
(***************************************************************************)
\* the vectors a caller may hand to the setter
ParVectors == UNION {[1..len -> ParValues] : len \in 0..MaxPars}

StoredParsBad(passed, old, new) == new

\* self._mean_pars after the setter: `self._mean_pars = copy(pars)` comes
\* after the assert, so a failed assert leaves the value stored before
StoredPars(passed, old, new) == IF passed THEN new ELSE old

\* the setter of mean_pars called again, with another list
SetMeanParsAgain ==
    /\ pars_pc = "got"
    /\ \E pars \in ParVectors :
         LET passed == Len(pars) = MeanParsSize(mobj) IN
         /\ v' = pars
         /\ mean_pars' = StoredPars(passed, mean_pars, pars)
         /\ IF passed
               THEN /\ mobj' = AssignPars(mobj, pars)
                    /\ pars_pc' = "set again"
               ELSE /\ mobj' = mobj
                    /\ pars_pc' = "AssertionError"
    /\ UNCHANGED <<got, engineVars, lateVars, rngVars, predVars>>

(***************************************************************************)
(* The specifications                                                      *)
(***************************************************************************)
CholIdle ==
    /\ chol_pc = "off" /\ matrix = <<>> /\ maximum = 0 /\ nugget = 0
    /\ n = 0 /\ L = NoFactor /\ tried = <<>>

CtorIdle ==
    /\ ctor_pc = "off" /\ nodes = <<>> /\ weight = DefaultKernel
    /\ means = <<>> /\ jitters = <<>> /\ time = <<>> /\ args = <<>>
    /\ q = 0 /\ p = 0 /\ qp = 0 /\ N = 0 /\ y = <<>> /\ yerr = <<>>

LatIdle ==
    /\ lat_pc = "off" /\ lat_op = "none" /\ callTime = <<>> /\ CB = <<>>
    /\ pos = 0 /\ cb_i = 0 /\ written = <<>> /\ u = <<>> /\ f = <<>> /\ w = <<>>

ELBIdle ==
    /\ elb_state = "off" /\ iterations = 0 /\ iterNumber = 0 /\ ELB = <<>>
    /\ sum_ELB = <<>> /\ mu = 0 /\ criteria = NoCriteria /\ ret = NoReturn

SweepIdle == sw_pc = "head" /\ call_k = 0 /\ calls = <<>>

MixIdle ==
    /\ mix_pc = "off" /\ mix_iterations = 0 /\ mix_iterNumber = 0
    /\ objective = "none" /\ mix_mu = 0 /\ mix_ret = <<>>

RngIdle == rng = [seed |-> 0, pos |-> 0] /\ wpc = <<>> /\ wmu = <<>> /\ wvar = <<>>

ParsIdle ==
    /\ pars_pc = "off" /\ mobj = <<>> /\ v = <<>> /\ mean_pars = <<>>
    /\ got = <<>>

PredIdle ==
    /\ pred_pc = "off" /\ pred_op = "none" /\ muF = <<>> /\ muW = <<>>
    /\ gainF = <<>> /\ gainW = 0 /\ ystar = <<>>

McIdle ==
    /\ mc_pc = "off" /\ sampler = "none" /\ mc_iterations = 0 /\ ndim = 0
    /\ mc_p0 = <<>> /\ chain = <<>> /\ lnprobability = <<>> /\ phases = <<>>
    /\ results = <<>>

FnIdle == fn_pc = "off" /\ fn_op = "none" /\ fn_in = <<>> /\ fn_out = <<>>

FlowIdle ==
    /\ fl_pc = "off" /\ fl_iterations = 0 /\ fl_iterNumber = 0
    /\ fl_j = 0 /\ fl_i = 0 /\ fl_mom = <<>> /\ fl_loc = <<>>
    /\ fl_log = <<>> /\ fl_ELB = <<>>

LateIdle == McIdle /\ FnIdle /\ FlowIdle

MoreIdle == RngIdle /\ ParsIdle /\ PredIdle /\ LateIdle

ExtIdle == SweepIdle /\ MixIdle /\ MoreIdle

\* an engine with one node, one output and one time, as the constructor
\* builds it
SmallEngine ==
    /\ nodes = NodesOfKind("Stationary", 1)
    /\ weight = DefaultKernel
    /\ means = <<0>> /\ jitters = <<0>>
    /\ time = TimeVector(1)
    /\ args = DataArgs(2, 1)
    /\ LET out == CtorOutcome(nodes, means, time, args) IN
         /\ ctor_pc = out.status
         /\ q = out.q /\ p = out.p /\ qp = out.qp /\ N = out.N
         /\ y = out.y /\ yerr = out.yerr

InitELB ==
    /\ SmallEngine
    /\ elb_state = "NotStarted"
    /\ iterations \in 0..MaxIter
    /\ iterNumber = 0 /\ ELB = <<>> /\ sum_ELB = <<>> /\ mu = 0
    /\ criteria = NoCriteria /\ ret = NoReturn
    /\ CholIdle
    /\ LatIdle
    /\ ExtIdle

NextELB == ELBCall \/ Sweep \/ ELBLoopExit

SpecELB == InitELB /\ [][NextELB]_vars

\* EvidenceLowerBound is sequential code: a step that can be taken is taken
FairSpecELB == SpecELB /\ WF_vars(NextELB)

InitChol ==
    /\ chol_pc = "idle"
    /\ matrix \in Matrices
    /\ maximum \in 0..MaxMaximum
    /\ nugget = 0
    /\ n = 0
    /\ L = NoFactor
    /\ tried = <<>>
    /\ CtorIdle
    /\ LatIdle
    /\ ELBIdle
    /\ ExtIdle

InitCtor ==
    /\ ctor_pc = "new"
    /\ nodes \in PlainNodeLists
    /\ weight = DefaultKernel
    /\ means \in MeanLists
    /\ jitters \in JitterLists
    /\ \E len \in 0..MaxN :
          /\ time = TimeVector(len)
          /\ \E count \in 0..(2 * MaxP + 1) : args = DataArgs(count, len)
    /\ q = 0 /\ p = 0 /\ qp = 0 /\ N = 0 /\ y = <<>> /\ yerr = <<>>
    /\ CholIdle
    /\ LatIdle
    /\ ELBIdle
    /\ ExtIdle

NextCtor == Construct

SpecCtor == InitCtor /\ [][NextCtor]_vars

\* an engine built by the constructor from q nodes, p outputs and N times
InitLatent ==
    /\ \E qq \in 1..MaxQ, pp \in 1..MaxP, nn \in 1..MaxN,
          kn \in KernelKinds, kw \in KernelKinds :
         /\ nodes = NodesOfKind(kn, qq)
         /\ weight = [kind |-> kw, par |-> MaxQ + 1]
         /\ means = [k \in 1..pp |-> 0]
         /\ jitters = [k \in 1..pp |-> 0]
         /\ time = TimeVector(nn)
         /\ args = DataArgs(2 * pp, nn)
    /\ LET out == CtorOutcome(nodes, means, time, args) IN
         /\ ctor_pc = out.status
         /\ q = out.q /\ p = out.p /\ qp = out.qp /\ N = out.N
         /\ y = out.y /\ yerr = out.yerr
    /\ lat_pc = "idle" /\ lat_op = "none" /\ callTime = <<>> /\ CB = <<>>
    /\ pos = 0 /\ cb_i = 0 /\ written = <<>> /\ u = <<>> /\ f = <<>> /\ w = <<>>
    /\ CholIdle
    /\ ELBIdle
    /\ ExtIdle

NextLatent ==
    \/ LatCall \/ CBNode \/ CBNodesDone \/ CBWeight \/ CBReturn
    \/ SampleAndSplit \/ FhatAndW

SpecLatent == InitLatent /\ [][NextLatent]_vars

CtorDone == ctor_pc \notin {"off", "new"}

\* C5: with an odd number of data arguments, each of N >= 1 entries, the
\* constructor fails with the AssertionError 'Given data and number of
\* components dont match', and with no other error raised before it.
C5_OddArgsAssertData ==
    (CtorDone /\ Len(args) % 2 = 1 /\ Len(time) >= 1)
        => ctor_pc = "AssertData"

\* C6: a jitter vector whose length differs from the number of outputs
\* p = len(args) / 2 makes the construction fail.
C6_JittersChecked ==
    (CtorDone /\ Len(time) >= 1 /\ Len(args) >= 2
        /\ Len(jitters) # Len(args) \div 2) => ctor_pc # "built"

\* C7: for an even number 2p (p >= 1) of data arguments, each of length N,
\* the construction succeeds exactly when the number of mean entries (None
\* counted) is p and otherwise fails with the AssertionError on the number
\* of means; on success p = len(args)/2, qp = q*p, N = time.size, y holds the
\* even-position arguments in order and yerr the odd-position ones, p x N.
C7_EvenArgs ==
    (CtorDone /\ Len(args) % 2 = 0 /\ Len(args) >= 2) =>
        LET half == Len(args) \div 2 IN
        /\ (ctor_pc = "built") <=> (Len(means) = half)
        /\ ctor_pc # "built" => ctor_pc = "AssertMeans"
        /\ ctor_pc = "built" =>
              /\ p = half
              /\ q = Len(nodes)
              /\ qp = q * p
              /\ N = Len(time)
              /\ Len(y) = p /\ Len(yerr) = p
              /\ \A i \in 1..p :
                    /\ y[i] = args[2 * i - 1]
                    /\ yerr[i] = args[2 * i]
                    /\ Len(y[i]) = N /\ Len(yerr[i]) = N

\* two outputs, one of the two means None, built
C7_Witness ==
    /\ ctor_pc = "built"
    /\ p = 2 /\ N = 2
    /\ means = <<0, 1>>
    /\ y = <<args[1], args[3]>>

\* _CB_matrix has returned (to its caller, or into _sample_CB)
CBReturned == lat_pc \in {"done", "sample"} /\ lat_op \in {"CB_matrix", "u_to_fhatW"}

\* C8: _CB_matrix returns a square matrix of side N*q*(p+1), block diagonal
\* with N x N blocks: diagonal block j (0 <= j < q) is the kernel matrix of
\* node j, each of the following q*p diagonal blocks is the weight kernel
\* matrix, every diagonal block is written exactly once (the fill position
\* ends at N*q*(p+1)), and every entry outside the diagonal blocks is zero.
C8_BlockDiagonal ==
    CBReturned =>
        LET size == Len(callTime)
            side == size * q * (p + 1)
            blockOf(r) == (r - 1) \div size
            within(r) == ((r - 1) % size) + 1
        IN
        /\ Len(CB) = side
        /\ pos = side
        /\ written = [k \in 1..(q * (p + 1)) |-> (k - 1) * size]
        /\ \A r \in 1..side :
              /\ Len(CB[r]) = side
              /\ \A c \in 1..side :
                    CB[r][c] =
                      IF blockOf(r) # blockOf(c) THEN 0
                      ELSE IF blockOf(r) < q
                      THEN kernelMatrix(nodes[blockOf(r) + 1], callTime)
                               [within(r)][within(c)]
                      ELSE kernelMatrix(weight, callTime)[within(r)][within(c)]

\* two nodes, two outputs, two times: a 12 x 12 matrix whose second block is
\* the second node's kernel matrix and whose last block is the weight's
C8_Witness ==
    /\ lat_pc = "done" /\ lat_op = "CB_matrix"
    /\ q = 2 /\ p = 2 /\ Len(callTime) = 2
    /\ Len(CB) = 12
    /\ CB[3][4] = kernelMatrix(nodes[2], callTime)[1][2]
    /\ CB[3][4] # 0
    /\ CB[12][11] = kernelMatrix(weight, callTime)[2][1]
    /\ CB[2][3] = 0

\* the split has returned: by _fhat_and_w with self.N, by u_to_fhatW with
\* time.size
SplitDone == lat_pc = "done" /\ lat_op \in {"fhat_and_w", "u_to_fhatW"}
SplitSize == IF lat_op = "fhat_and_w" THEN N ELSE Len(callTime)

\* C9: the split of a flat vector u of length N*q*(p+1) gives a node tensor f
\* of shape (1, q, N) with f[0,j,n] = u[j*N + n] and a weight tensor w of
\* shape (p, q, N) with w[i,j,n] = u[q*N + (i*q + j)*N + n] (indices from 0);
\* the flattened f followed by the flattened w is u again.
C9_SplitLayout ==
    (SplitDone /\ Len(u) = SplitSize * q * (p + 1)) =>
        /\ Len(f) = 1
        /\ Len(f[1]) = q
        /\ Len(w) = p
        /\ \A j \in 0..(q - 1) :
              /\ Len(f[1][j + 1]) = SplitSize
              /\ \A t \in 0..(SplitSize - 1) :
                    f[1][j + 1][t + 1] = u[(j * SplitSize + t) + 1]
        /\ \A i \in 0..(p - 1) :
              /\ Len(w[i + 1]) = q
              /\ \A j \in 0..(q - 1) :
                    /\ Len(w[i + 1][j + 1]) = SplitSize
                    /\ \A t \in 0..(SplitSize - 1) :
                          w[i + 1][j + 1][t + 1] =
                            u[(q * SplitSize + (i * q + j) * SplitSize + t) + 1]
        /\ Concat(Concat(f)) \o Concat(Concat(w)) = u

\* a split by _fhat_and_w with two nodes, two outputs and two times
C9_Witness ==
    /\ lat_pc = "done" /\ lat_op = "fhat_and_w"
    /\ q = 2 /\ p = 2 /\ N = 2
    /\ Len(u) = 12
    /\ w[2][1][2] = u[10]
    /\ f[1][2][1] = u[3]

\* the number of sweeps performed so far
Sweeps == IF ELB = <<>> THEN 0 ELSE Len(ELB) - 1

ELBDone == elb_state \in {"Converged", "MaxIterationsReached"}

\* NotStarted -> Iterating -> (Converged | MaxIterationsReached)
C1_Transitions ==
    \/ elb_state' = elb_state
    \/ elb_state = "NotStarted" /\ elb_state' = "Iterating"
    \/ elb_state = "Iterating" /\ elb_state' \in {"Converged", "MaxIterationsReached"}

C1_Safety ==
    /\ elb_state \in {"NotStarted", "Iterating", "Converged", "MaxIterationsReached"}
    /\ Sweeps <= iterations
    /\ elb_state = "MaxIterationsReached" => Sweeps = iterations
    /\ elb_state = "Converged" =>
          /\ Sweeps >= 1
          /\ StopNow(criteria)
    /\ ELBDone =>
          /\ ret.elbo = ELB[Len(ELB)]
          /\ sum_ELB = <<ret.elbo>>
          /\ ret.mu = Sweeps
          /\ mu = Sweeps

\* C1: for every iteration budget iterations >= 1 the mean-field
\* EvidenceLowerBound follows NotStarted -> Iterating -> (Converged |
\* MaxIterationsReached): it always terminates, performs at most `iterations`
\* sweeps, ends by the early convergence return or after exactly `iterations`
\* sweeps, and returns the ELBO and the node and weight means of the last
\* sweep it performed.
C1_StateMachine ==
    /\ [](iterations >= 1 => C1_Safety)
    /\ [][iterations >= 1 => C1_Transitions]_vars
    /\ (iterations >= 1) => <>ELBDone

\* an early convergence return after three sweeps of a budget of five
C1_Witness ==
    /\ elb_state = "Converged"
    /\ iterations = 5
    /\ Sweeps = 3
    /\ ret = [elbo |-> ELB[4], mu |-> 3]

\* the stopping criteria as C2 describes it: W is the last 10 values the
\* sweeps computed, all of them when fewer than 10 sweeps have run
C2_Window == LastOf(Tail(ELB), Window)
C2_Criteria ==
    [num |-> Abs(SumSeq(C2_Window) - Len(C2_Window) * ELB[Len(ELB)]),
     den |-> Len(C2_Window)]

\* C2: after each sweep the engine computes c = |mean(W) - current ELBO|, W
\* being the last 10 ELBO values computed by sweeps (all of them when fewer
\* than 10 sweeps have run); it returns at the first sweep where
\* 0 < c < 1e-10, and when c is exactly 0 it does not stop early.
C2_SweepWindow ==
    (Sweeps >= 1 /\ elb_state \in {"Iterating", "Converged", "MaxIterationsReached"}) =>
        /\ criteria.num * C2_Criteria.den = C2_Criteria.num * criteria.den
        /\ (elb_state = "Converged") <=>
              (0 < C2_Criteria.num /\ C2_Criteria.num < Tolerance * C2_Criteria.den)

\* the largest ELBO any sweep computed
BestELB ==
    CHOOSE best \in {ELB[k] : k \in 2..Len(ELB)} :
        \A k \in 2..Len(ELB) : ELB[k] <= best

\* C10 as stated: when the loop stops because the iteration budget is
\* exhausted, the ELBO returned is the maximum ELBO among all the sweeps.
C10_ReturnsBest ==
    elb_state = "MaxIterationsReached" => ret.elbo = BestELB

\* C10, amended: when the loop stops because the iteration budget is
\* exhausted, the ELBO returned is the ELBO of the last sweep, whether or not
\* an earlier sweep had a larger one.
C10_ReturnsLast ==
    elb_state = "MaxIterationsReached" =>
        /\ ret.elbo = ELB[Len(ELB)]
        /\ sum_ELB = <<ret.elbo>>

\* the budget of three sweeps exhausted, an earlier sweep better than the last
C10_Witness ==
    /\ elb_state = "MaxIterationsReached"
    /\ iterations = 3
    /\ ret.elbo = ELB[4]
    /\ ELB[2] > ELB[4]

NextChol == CholCall \/ CholDirect \/ CholRetry \/ CholRaise

SpecChol == InitChol /\ [][NextChol]_vars

\* _cholNugget is straight-line sequential code: a step that can be taken is taken
FairSpecChol == SpecChol /\ WF_vars(NextChol)

CholDone == chol_pc \in {"returned", "raised"}

RECURSIVE Pow(_, _)
Pow(b, e) == IF e = 0 THEN 1 ELSE b * Pow(b, e - 1)

\* C3: the first attempt factorizes the matrix unchanged; a retry happens only
\* after the direct attempt failed; the k-th retry factorizes the ORIGINAL
\* matrix plus nugget_k * I, where nugget_1 = 1e-5 * |mean of the diagonal|
\* and nugget_{k+1} = 10 * nugget_k; a success at retry k returns that factor
\* together with nugget_k.
C3_RetryLadder ==
    /\ Len(tried) >= 1 => tried[1] = 0
    /\ Len(tried) >= 2 => ~CholeskyOK(matrix, 0)
    /\ \A k \in 1..(Len(tried) - 1) :
          tried[k + 1] = BaseNugget(matrix) * Pow(10, k - 1)
    /\ (chol_pc = "returned" /\ Len(tried) >= 2) =>
          LET k == Len(tried) - 1 IN
            /\ L = [of |-> matrix, shift |-> BaseNugget(matrix) * Pow(10, k - 1)]
            /\ nugget = BaseNugget(matrix) * Pow(10, k - 1)
            /\ CholeskyOK(matrix, L.shift)

\* a factor returned by the third retry, two nuggets having failed before it
C3_Witness ==
    /\ chol_pc = "returned"
    /\ Len(tried) = 4
    /\ L.shift = 100 * BaseNugget(matrix)
    /\ BaseNugget(matrix) > 0

C4_Safety ==
    /\ Len(tried) <= maximum + 1
    /\ chol_pc = "raised" =>
          /\ L = NoFactor
          /\ Len(tried) = maximum + 1
          /\ \A k \in 1..Len(tried) : ~CholeskyOK(matrix, tried[k])
    /\ chol_pc = "returned" =>
          /\ L.of = matrix
          /\ L.shift = tried[Len(tried)]
          /\ CholeskyOK(matrix, L.shift)
    /\ chol_pc # "returned" => L = NoFactor
    /\ (maximum = 0 /\ chol_pc \in {"retry", "raised"}) =>
          /\ tried = <<0>>
          /\ ENABLED CholRaise \/ chol_pc = "raised"

\* C4: _cholNugget always terminates, after at most maximum + 1 factorization
\* attempts; when every attempt fails it raises LinAlgError and returns no
\* factor, so a factor is returned only from an attempt that succeeded; with
\* maximum = 0 a failing direct factorization raises without any retry.
C4_BoundedAttempts == [] C4_Safety /\ <> CholDone

\* maximum = 0, the direct attempt failed, LinAlgError raised with no retry
C4_Witness ==
    /\ chol_pc = "raised"
    /\ maximum = 0
    /\ tried = <<0>>

\* an engine with qq nodes, pp outputs and one time, as the constructor
\* builds it
BuiltEngine(qq, pp) ==
    /\ nodes = NodesOfKind("Stationary", qq)
    /\ weight = DefaultKernel
    /\ means = [k \in 1..pp |-> 0]
    /\ jitters = [k \in 1..pp |-> 0]
    /\ time = TimeVector(1)
    /\ args = DataArgs(2 * pp, 1)
    /\ LET out == CtorOutcome(nodes, means, time, args) IN
         /\ ctor_pc = out.status
         /\ q = out.q /\ p = out.p /\ qp = out.qp /\ N = out.N
         /\ y = out.y /\ yerr = out.yerr

\* one evaluation of the ELBO, by the mean-field engine or by the mixture
\* engine, followed call by call
InitEval ==
    /\ \E qq \in 1..MaxQ, pp \in 1..MaxP : BuiltEngine(qq, pp)
    /\ CholIdle
    /\ LatIdle
    /\ SweepIdle
    /\ MoreIdle
    /\ \/ /\ elb_state = "NotStarted"
          /\ iterations \in 0..MaxSweeps
          /\ iterNumber = 0 /\ ELB = <<>> /\ sum_ELB = <<>> /\ mu = 0
          /\ criteria = NoCriteria /\ ret = NoReturn
          /\ MixIdle
       \/ /\ ELBIdle
          /\ mix_pc = "NotStarted"
          /\ mix_iterations \in 0..MaxSweeps
          /\ mix_iterNumber = 0 /\ objective = "none" /\ mix_mu = 0
          /\ mix_ret = <<>>

NextMeanField ==
    \/ ELBCall \/ SweepUpdate \/ EntropyFactor \/ EntropyReturn
    \/ LogPriorFactor \/ LogPriorReturn \/ SweepClose \/ SweepRaise
    \/ ELBLoopExit

NextMixture ==
    \/ MixCall \/ JointBegin \/ JointFactor \/ JointReturn \/ Minimize
    \/ JointRaise \/ MixLoopExit

NextEval == NextMeanField \/ NextMixture \/ NextChol

SpecEval == InitEval /\ [][NextEval]_vars

\* a _cholNugget call of a mean-field sweep has raised LinAlgError
SweepFailed == elb_state = "Iterating" /\ chol_pc = "raised"

\* C11: a LinAlgError that _cholNugget raises during a mean-field sweep, in
\* the entropy or in the expected log-prior, propagates out of
\* EvidenceLowerBound: the sweep is abandoned, no further sweep runs and no
\* ELBO is returned; the error is raised only after the bounded retry loop of
\* _cholNugget has used all its attempts.
C11_Propagates ==
    /\ [][SweepFailed =>
            /\ elb_state' = "LinAlgError"
            /\ UNCHANGED <<iterNumber, ELB, sum_ELB, mu, ret, sweepVars>>]_vars
    /\ [][elb_state # "LinAlgError"]_vars
    /\ [](elb_state = "LinAlgError" =>
            /\ sw_pc \in {"entropy", "logprior"}
            /\ chol_pc = "raised"
            /\ Len(tried) = DefaultMaximum + 1
            /\ \A k \in 1..Len(tried) : ~CholeskyOK(matrix, tried[k])
            /\ ret = NoReturn
            /\ Len(ELB) = iterNumber + 1)

\* the second sweep abandoned in the expected log-prior, after the entropy
\* of that sweep was computed
C11_Witness ==
    /\ elb_state = "LinAlgError"
    /\ sw_pc = "logprior"
    /\ iterNumber = 1
    /\ iterations = 2
    /\ ret = NoReturn

\* C12: within one outer iteration of either engine, _cholNugget is invoked
\* at most once for each matrix: each node kernel matrix, the weight kernel
\* matrix, each posterior covariance factor.
C12_OncePerMatrix ==
    /\ \A a \in 1..Len(calls), b \in 1..Len(calls) :
          a # b => calls[a] # calls[b]
    /\ sw_pc = "loglike" => Len(calls) = q * (p + 1) + q + 1
    /\ mix_pc = "minimize" => Len(calls) = q + 1

\* a mean-field sweep of two nodes and two outputs, all its nine
\* factorizations done
C12_Witness ==
    /\ sw_pc = "loglike"
    /\ q = 2 /\ p = 2
    /\ Len(calls) = 9
    /\ calls[2] = MatrixName("sigma_w", 1, 1)
    /\ calls[7] = MatrixName("Kw", 1, 0)

\* two mean-field evaluations start in one process
InitWorkers ==
    /\ \E qq \in 1..MaxQ, pp \in 1..MaxP : BuiltEngine(qq, pp)
    /\ CholIdle
    /\ LatIdle
    /\ ELBIdle
    /\ SweepIdle
    /\ MixIdle
    /\ ParsIdle
    /\ PredIdle
    /\ LateIdle
    /\ rng = Seeded(0)
    /\ wpc = [wk \in Workers |-> "randn"]
    /\ wmu = [wk \in Workers |-> <<>>]
    /\ wvar = [wk \in Workers |-> <<>>]

NextWorkers ==
    \/ DrawFirstMu \/ DrawFirstVar \/ SeedForMu \/ DrawMu \/ SeedForVar
    \/ DrawVar

SpecWorkers == InitWorkers /\ [][NextWorkers]_vars

\* the initial parameters of an evaluation that runs alone
AloneMu == Draw(Seeded(SeedMu), LatentSize)
AloneVar == Draw(Seeded(SeedVar), LatentSize)

\* C13: two mean-field ELBO evaluations running concurrently in one process
\* each compute what they compute alone: the initial variational parameters
\* an evaluation draws are the ones it draws when it runs alone, whatever
\* the other evaluation does to the generator of the process.
C13_AloneResult ==
    \A wk \in Workers :
        wpc[wk] = "drawn" => wmu[wk] = AloneMu /\ wvar[wk] = AloneVar

\* an evaluation has returned or raised
EvalDone ==
    \/ elb_state \in {"Converged", "MaxIterationsReached", "LinAlgError",
                      "UnboundLocalError"}
    \/ mix_pc \in {"TypeError", "LinAlgError", "UnboundLocalError"}

\* C14: an ELBO evaluation of either engine only reads the model: no step of
\* it changes the engine's time vector, y, yerr, q, p, N, or the node, weight
\* and mean objects and their parameters, and none creates or replaces an
\* object, so they are what they were when the evaluation returns or raises.
C14_ReadsOnly ==
    [][UNCHANGED <<nodes, weight, means, jitters, time, args, q, p, qp, N, y,
                   yerr>>]_vars

\* a mean-field evaluation of two outputs that has returned after two sweeps,
\* each of which computed the residuals of y
C14_Witness ==
    /\ EvalDone
    /\ elb_state = "MaxIterationsReached"
    /\ iterations = 2
    /\ p = 2
    /\ y = <<<<11>>, <<31>>>>

\* an engine with qq nodes, pp outputs with the mean functions ms, and one
\* time, as the constructor builds it
EngineWith(qq, pp, ms) ==
    /\ nodes = NodesOfKind("Stationary", qq)
    /\ weight = DefaultKernel
    /\ means = ms
    /\ jitters = [k \in 1..pp |-> 0]
    /\ time = TimeVector(1)
    /\ args = DataArgs(2 * pp, 1)
    /\ LET out == CtorOutcome(nodes, means, time, args) IN
         /\ ctor_pc = out.status
         /\ q = out.q /\ p = out.p /\ qp = out.qp /\ N = out.N
         /\ y = out.y /\ yerr = out.yerr

\* the mean objects of an output
MeanObjects == {NoneMean} \cup {MeanFunction(sz) : sz \in 1..MaxParSize}

\* the setter of mean_pars is called with a list v, then the getter
InitPars ==
    /\ \E pp \in 1..MaxP :
         \E objs \in [1..pp -> MeanObjects] :
            /\ mobj = objs
            /\ EngineWith(1, pp, [i \in 1..pp |-> IF objs[i].none THEN 0 ELSE 1])
    /\ v \in UNION {[1..len -> ParValues] : len \in 0..MaxPars}
    /\ pars_pc = "idle" /\ mean_pars = <<>> /\ got = <<>>
    /\ CholIdle /\ LatIdle /\ ELBIdle /\ SweepIdle /\ MixIdle
    /\ RngIdle /\ PredIdle /\ LateIdle

NextPars == SetMeanPars \/ GetMeanPars

SpecPars == InitPars /\ [][NextPars]_vars

C15_Safety ==
    pars_pc \in {"set", "got"} =>
        /\ Len(v) = MeanParsSize(mobj)
        /\ \A i \in 1..Len(mobj) :
              IF mobj[i].none THEN mobj[i] = NoneMean
                              ELSE Len(mobj[i].pars) = mobj[i].size
        /\ Concat([i \in 1..Len(mobj) |-> mobj[i].pars]) = v
        /\ mean_pars = v
        /\ pars_pc = "got" => got = v

\* C15: setting mean_pars to a list v of length mean_pars_size gives every
\* mean function that is not None, in output order, the next _parsize
\* entries of v (None takes none): the parameters of the mean functions,
\* concatenated in output order, are v; the getter then returns v in full;
\* and the caller's v is not modified.
C15_RoundTrip == [] C15_Safety /\ [][v' = v]_vars

\* two outputs, the first without a mean function: the second got both entries
C15_Witness ==
    /\ pars_pc = "got"
    /\ mobj[1] = NoneMean
    /\ mobj[2] = [none |-> FALSE, size |-> 2, pars |-> <<3, 1>>]
    /\ v = <<3, 1>>
    /\ got = <<3, 1>>

\* a prediction at one query time from fitted means
InitPredict ==
    /\ \E qq \in 1..MaxQ, pp \in 1..MaxP :
         /\ \E ms \in [1..pp -> {0, 1}] : EngineWith(qq, pp, ms)
         /\ muF \in [1..qq -> FittedNodeMeans]
         /\ muW \in [1..pp -> [1..qq -> FittedWeightMeans]]
         /\ gainF \in [1..qq -> Gains]
    /\ gainW \in Gains
    /\ pred_op \in {"Prediction", "Prediction_new"}
    /\ pred_pc = "idle" /\ ystar = <<>>
    /\ CholIdle /\ LatIdle /\ ELBIdle /\ SweepIdle /\ MixIdle
    /\ RngIdle /\ ParsIdle /\ LateIdle

NextPredict == Prediction \/ Prediction_new

SpecPredict == InitPredict /\ [][NextPredict]_vars

\* C16: in Prediction and in Prediction_new, the predictive mean of output i
\* is the sum over the nodes j of (predicted weight of (i, j)) times
\* (predicted value of node j), built from the fitted weight means of output
\* i only, plus the mean function of output i (zero when absent).
C16_PredictiveMean ==
    pred_pc = "done" =>
        \A i \in 1..p :
            ystar[i] = SumSeq([j \in 1..q |-> WeightStar(i, j) * NodeStar(j)])
                       + MeanStar(i)

\* the mixture EvidenceLowerBound has returned or raised
MixDone ==
    mix_pc \in {"returned", "TypeError", "UnboundLocalError", "LinAlgError"}

\* C17: absent a factorization failure, the mixture EvidenceLowerBound called
\* with iterations = n >= 1 performs at most n passes of its loop and then
\* returns: iterNumber counts the passes, so the loop condition ends the
\* loop.
C17_BoundedPasses ==
    (mix_iterations >= 1 /\ MixDone /\ mix_pc # "LinAlgError") =>
        /\ mix_pc = "returned"
        /\ mix_ret # <<>>
        /\ mix_iterNumber >= 1
        /\ mix_iterNumber <= mix_iterations

\* C18: the objective handed to the inner minimizer is a function of the
\* flattened mean vector (so that the means of the next pass can be the ones
\* the minimizer produced).
C18_ObjectiveIsFunction ==
    mix_pc = "minimize" => Callable(objective)

\* C19: for every matrix whose direct factorization fails, every retry adds
\* a strictly positive nugget and successive retries factorize different,
\* increasingly regularized matrices, so a factor returned after at least
\* one retry carries a nugget greater than zero.
C19_PositiveNugget ==
    Len(tried) >= 2 =>
        /\ \A k \in 2..Len(tried) : tried[k] > 0
        /\ \A k \in 2..(Len(tried) - 1) : tried[k + 1] > tried[k]
        /\ chol_pc = "returned" => nugget > 0

EngineIdle ==
    /\ CholIdle /\ CtorIdle /\ LatIdle /\ ELBIdle /\ SweepIdle /\ MixIdle

InitMcmc ==
    /\ EngineIdle /\ RngIdle /\ ParsIdle /\ PredIdle /\ FnIdle /\ FlowIdle
    /\ mc_pc = "call"
    /\ sampler \in Samplers
    /\ mc_iterations \in 1..MaxRuns
    /\ ndim = 0
    /\ mc_p0 = <<>> /\ chain = <<>> /\ lnprobability = <<>> /\ phases = <<>>
    /\ results = <<>>

NextMcmc ==
    \/ McEmcee
    \/ McNotEmcee
    \/ BurnStep
    \/ BurnDone
    \/ Reset
    \/ RunStep
    \/ McCollect
    \/ Dynesty
    \/ McNotDynesty
    \/ McReturn

SpecMcmc == InitMcmc /\ [][NextMcmc]_vars

EmceeReturned == mc_pc = "returned" /\ sampler = "object"

\* C21: a call with sampler='emcee' that has returned took exactly
\* `iterations` burn-in steps, then one reset, then exactly `iterations`
\* production steps, the first of them from the walkers' final burn-in
\* positions, and no nested-sampler step; the rows returned are the
\* (2*ndim)*iterations production positions, walker by walker, each followed
\* by its log-probability.
C21_BurnResetRun ==
    EmceeReturned =>
        /\ Len(phases) = 2 * mc_iterations + 1
        /\ \A s \in 1..mc_iterations : phases[s].phase = "burn"
        /\ phases[mc_iterations + 1].phase = "reset"
        /\ \A s \in 1..mc_iterations :
               phases[mc_iterations + 1 + s].phase = "run"
        /\ phases[mc_iterations + 2].from = phases[mc_iterations].to
        /\ Len(results) = (2 * ndim) * mc_iterations
        /\ \A wk \in 1..(2 * ndim) : \A s \in 1..mc_iterations :
               LET row == results[(wk - 1) * mc_iterations + s]
                   at == phases[mc_iterations + 1 + s].to[wk]
               IN  /\ Len(row) = ndim + 1
                   /\ SubSeq(row, 1, ndim) = at
                   /\ row[ndim + 1] = LnProb(at)

C21_Witness ==
    /\ EmceeReturned
    /\ mc_iterations = MaxRuns
    /\ ndim = MaxDim
    /\ \E wk \in 1..nwalkers : results[wk * mc_iterations][1] # 10 * wk

(***************************************************************************)
(* SpecMoments: one call of _updateSigmaMu_new or of _expectedLogLike_new  *)
(* on a built engine, for every shape of the network and for variational   *)
(* means drawn from small sets.                                            *)
(***************************************************************************)
RestIdle ==
    /\ CholIdle /\ LatIdle /\ ELBIdle /\ SweepIdle /\ MixIdle
    /\ RngIdle /\ ParsIdle /\ PredIdle /\ McIdle /\ FlowIdle

InitMoments ==
    /\ RestIdle
    /\ \E qq \in 1..MaxQ, pp \in 1..MaxP, nn \in 1..MaxN, jit \in {0, 1},
          scale \in {1, 2}, mean \in {0, 1} :
         /\ MethodEngine("Stationary", qq, [i \in 1..pp |-> mean], nn, jit, scale)
         /\ \E mF \in Arrays2(qq, nn, MomentValues), mW \in Arrays3(pp, qq, nn) :
              fn_in = [muF |-> mF, muW |-> mW]
    /\ fn_op \in {"_updateSigmaMu_new", "_expectedLogLike_new"}
    /\ fn_pc = "call"
    /\ fn_out = <<>>

NextMoments == UpdateSigmaMu \/ ExpectedLogLike

SpecMoments == InitMoments /\ [][NextMoments]_vars

\* C22: in the node loop of _updateSigmaMu_new, for every node j and output
\* i, the sum subtracted from y_i is, at every time n, the sum over the nodes
\* k other than j of mu_w[i, k, n] * mu_f[k, n], with mu_f as it was passed.
C22_SameIndexing ==
    (fn_pc = "done" /\ fn_op = "_updateSigmaMu_new") =>
        \A j \in 1..q : \A i \in 1..p : \A t \in 1..N :
            fn_out.Sum_nj[j][i][t] =
                SumSeq([k \in 1..q |->
                    IF k = j THEN 0
                    ELSE fn_in.muW[i][k][t] * fn_in.muF[k][t]])

\* C23: _expectedLogLike_new returns -1/2 * S / error_term where S is the
\* sum over the outputs i and the times n of
\* (y_i(t_n) - mean_i(t_n) - sum_j mu_w[i, j, n] * mu_f[j, n]) squared.
C23_ResidualSum ==
    (fn_pc = "done" /\ fn_op = "_expectedLogLike_new") =>
        fn_out.sumYdiff =
            SumSeq([i \in 1..p |-> SumSeq([t \in 1..N |->
                LET res == y[i][t] - MeanVector(means, time)[(i - 1) * N + t]
                           - SumSeq([j \in 1..q |->
                                 fn_in.muW[i][j][t] * fn_in.muF[j][t]])
                IN  res * res])])

\* C24: the error term that the update formulas and the expected
\* log-likelihood divide by is the noise combined from the jitters and the
\* measurement uncertainties: sqrt(sum jitters^2) / p plus, for every
\* output, sqrt(sum yerr_i^2) / N.
C24_CombinedNoise ==
    fn_pc = "done" =>
        LET combined == CombinedNoise(jitters, yerr, p, N)
        IN  fn_out.error_term.num * combined.den
              = combined.num * fn_out.error_term.den

(***************************************************************************)
(* SpecFlow: the sweeps of the mean-field EvidenceLowerBound on an engine  *)
(* of every shape, followed factor by factor.                              *)
(***************************************************************************)
InitFlow ==
    /\ \E qq \in 1..MaxQ, pp \in 1..MaxP : BuiltEngine(qq, pp)
    /\ CholIdle /\ LatIdle /\ ELBIdle /\ SweepIdle /\ MixIdle
    /\ RngIdle /\ ParsIdle /\ PredIdle /\ McIdle /\ FnIdle
    /\ fl_pc = "while"
    /\ fl_iterations \in 0..MaxSweeps
    /\ fl_iterNumber = 0
    /\ fl_j = 0 /\ fl_i = 0
    /\ fl_mom = InitialMoments
    /\ fl_loc = NoLocals
    /\ fl_log = <<>>
    /\ fl_ELB = <<>>

NextFlow ==
    \/ FlowSweep
    \/ FlowReturn
    \/ FlowNode
    \/ FlowNodesDone
    \/ FlowWeight
    \/ FlowRebuild
    \/ FlowEntropy
    \/ FlowLogPrior
    \/ FlowLogLike
    \/ FlowAppend
    \/ FlowCriteria

SpecFlow == InitFlow /\ [][NextFlow]_vars

\* what one sweep computes, in order
SweepOrder ==
    [m \in 1..(2 * q) |->
        <<IF m % 2 = 1 THEN "sigma_f" ELSE "mu_f", 0, (m + 1) \div 2>>]
    \o [m \in 1..(2 * p * q) |->
        <<IF m % 2 = 1 THEN "sigma_w" ELSE "mu_w",
          (((m + 1) \div 2 - 1) \div q) + 1, (((m + 1) \div 2 - 1) % q) + 1>>]
    \o << <<"Entropy", 0, 0>>, <<"ExpLogPrior", 0, 0>>, <<"ExpLogLike", 0, 0>>,
          <<"ELB.append", 0, 0>>, <<"criteria", 0, 0>> >>

\* the moments of the nodes and the moments of the weights among a set
OfNodes(moments) == {m \in moments : m.i = 0}

\* C25: every sweep computes, in this order, the q node factors (covariance,
\* then mean) from moments of the sweep before, the p*q weight factors from
\* node moments of this same sweep, then entropy, expected log-prior and
\* expected log-likelihood, then appends their sum to ELB, then tests the
\* stopping criteria; and the variances kept for the next sweep for the weight
\* (i, j) and the node j are the diagonals of the covariances this sweep
\* computed for that weight and that node.
C25_SweepOrder ==
    /\ \A m \in 1..Len(fl_log) :
         LET e == fl_log[m]
             at == ((m - 1) % Len(SweepOrder)) + 1
         IN  /\ e.sweep = ((m - 1) \div Len(SweepOrder)) + 1
             /\ <<e.what, e.i, e.j>> = SweepOrder[at]
             /\ e.what \in {"sigma_f", "mu_f"} =>
                  \A r \in e.reads :
                     r.sweep = IF r.what = "sigma_f" THEN e.sweep
                               ELSE e.sweep - 1
             /\ e.what \in {"sigma_w", "mu_w"} =>
                  \A r \in OfNodes(e.reads) : r.sweep = e.sweep
             /\ e.what = "ELB.append" =>
                  e.reads = {Moment(term, 0, 0, e.sweep) :
                      term \in {"ExpLogLike", "ExpLogPrior", "Entropy"}}
    /\ fl_pc \in {"entropy", "logprior", "loglike", "append", "criteria"} =>
         /\ \A j \in 1..q :
              fl_mom.varF[j] = Moment("diag sigma_f", 0, j, ThisSweep)
         /\ \A i \in 1..p : \A j \in 1..q :
              fl_mom.varW[i][j] = Moment("diag sigma_w", i, j, ThisSweep)

\* the second sweep of an engine with two nodes and two outputs has been
\* performed, and the stopping criteria tested
C25_Witness ==
    /\ q = 2 /\ p = 2
    /\ fl_pc = "returned"
    /\ fl_iterNumber = 1
    /\ Len(fl_log) = 2 * Len(SweepOrder)
    /\ fl_mom.varW[1][2] = Moment("diag sigma_w", 1, 2, 2)

(***************************************************************************)
(* SpecMethods: one call of _kernelMatrix, _predictKernelMatrix, the       *)
(* mixture _entropy or get_y on a built engine.                            *)
(***************************************************************************)
KernelArgs ==
    {[kernel |-> [kind |-> kd, par |-> par], tstar |-> ts] :
        kd \in KernelKinds, par \in 1..MaxKernelPar,
        ts \in {<<MaxN + 1>>, <<MaxN + 1, MaxN + 2>>}}

EntropyArgs ==
    UNION {{[k |-> k, sigma |-> sg] : sg \in [1..k -> SigmaValues]} :
              k \in 1..MaxK}

\* the arguments of get_y for an engine of qq nodes and pp outputs: n and w
\* as u_to_fhatW returns them for the times tm, means None or a list
GetYArgs(qq, pp) ==
    {[n |-> nn, w |-> ww, time |-> TimeVector(len), means |-> ms] :
        len \in 1..MaxN,
        nn \in UNION {Arrays2(qq, sz, MomentValues) : sz \in 1..MaxN},
        ww \in UNION {Arrays3(pp, qq, sz) : sz \in 1..MaxN},
        ms \in {[given |-> FALSE, list |-> <<>>]}
               \cup {[given |-> TRUE, list |-> [i \in 1..pp |-> mean]] :
                        mean \in {0, 1}}}

SameLength(a) == Len(a.n[1]) = Len(a.time) /\ Len(a.w[1][1]) = Len(a.time)

InitMethods ==
    /\ RestIdle
    /\ \E qq \in 1..MaxQ, pp \in 1..MaxP, nn \in 1..MaxN :
         /\ MethodEngine("Stationary", qq, [i \in 1..pp |-> 0], nn, 0, 1)
         /\ \/ /\ fn_op \in {"_kernelMatrix", "_predictKernelMatrix"}
               /\ qq = 1 /\ pp = 1
               /\ fn_in \in KernelArgs
            \/ /\ fn_op = "_entropy"
               /\ nn = 1
               /\ fn_in \in EntropyArgs
            \/ /\ fn_op = "get_y"
               /\ nn = 1
               /\ fn_in \in {a \in GetYArgs(qq, pp) : SameLength(a)}
    /\ fn_pc = "call"
    /\ fn_out = <<>>

NextMethods == KernelMatrix \/ PredictKernelMatrix \/ MixEntropy \/ GetY

SpecMethods == InitMethods /\ [][NextMethods]_vars

Returned(method) == fn_op = method /\ fn_pc # "call"

\* C26: for a kernel of every kind, Linear and Polynomial included, the
\* matrix _kernelMatrix returns is the kernel evaluated at the pairs of times
\* plus the regularization on its diagonal.
C26_Regularized ==
    Returned("_kernelMatrix") =>
        \A r \in 1..N : \A c \in 1..N :
            fn_out[r][c] = KernelEval(fn_in.kernel, time[r], time[c])
                           + (IF r = c THEN Regularization ELSE 0)

\* C27: _predictKernelMatrix returns, for a Linear or Polynomial kernel, the
\* kernel evaluated at the raw query and training times; for a WhiteNoise
\* kernel, zeros; for any other kernel, the kernel evaluated at the lags.
C27_OneBranch ==
    Returned("_predictKernelMatrix") =>
        /\ fn_pc = "done"
        /\ fn_out = IF fn_in.kernel.kind = "WhiteNoise"
                       THEN [c \in 1..N |-> 0]
                       ELSE CrossMatrix(fn_in.kernel, fn_in.tstar, time)

\* C28: for every number k >= 1 of components the mixture _entropy returns a
\* value, the variance it uses for the component ki is that of sigma[ki],
\* and the k terms are averaged with the weight 1/k each.
C28_OwnVariance ==
    Returned("_entropy") =>
        /\ fn_pc = "done"
        /\ \A ki \in 1..fn_in.k :
             /\ fn_out.sig_nj[ki] = fn_in.sigma[ki] * fn_in.sigma[ki]
                                    + fn_in.sigma[ki] * fn_in.sigma[ki]
             /\ fn_out.beta[ki] = fn_in.k

\* C30: get_y returns the p x T array of the sums over the nodes j of
\* w[i, j, t] * n[0, j, t], plus the mean function of output i at t when
\* means is given, and without any mean when means is None.
C30_WeightsTimesNodes ==
    Returned("get_y") =>
        /\ fn_pc = "done"
        /\ fn_out.name = "y"
        /\ fn_out.array = [i \in 1..p |-> [t \in 1..Len(fn_in.time) |->
               SumSeq([j \in 1..q |-> fn_in.w[i][j][t] * fn_in.n[j][t]])
               + (IF fn_in.means.given
                     THEN MeanVector(fn_in.means.list, fn_in.time)
                              [(i - 1) * Len(fn_in.time) + t]
                     ELSE 0)]]

(***************************************************************************)
(* SpecParsAgain: the setter of mean_pars, the getter, and the setter once *)
(* more.                                                                   *)
(***************************************************************************)
NextParsAgain == SetMeanPars \/ GetMeanPars \/ SetMeanParsAgain

SpecParsAgain == InitPars /\ [][NextParsAgain]_vars

\* a step of the setter: v' is the list it is called with
SetterStep == pars_pc \in {"idle", "got"} /\ pars_pc' # pars_pc

\* C29: a call of the mean_pars setter with a list whose length is not
\* mean_pars_size ends in AssertionError, and leaves the pars of every mean
\* function and the stored mean_pars as they were before the call.
C29_FailsUnchanged ==
    [][(SetterStep /\ Len(v') # MeanParsSize(mobj)) =>
          /\ pars_pc' = "AssertionError"
          /\ mean_pars' = mean_pars
          /\ mobj' = mobj]_vars

\* the setter stored <<3, 1>>, then failed on a list of three entries
C29_Witness ==
    /\ pars_pc = "AssertionError"
    /\ mean_pars = <<3, 1>>
    /\ got = <<3, 1>>
    /\ Len(v) = 3
    /\ Len(mobj) = 2 /\ mobj[2].pars = <<3, 1>>

====
